---- MODULE Spec2Model ----
(***************************************************************************)
(* A model of the Gmail workflow application's API routes and pages:       *)
(*   - the categorize route (Ollama-backed and OpenAI-backed versions),    *)
(*   - the generate-tasks route and the Todo page that calls it,           *)
(*   - the keyword helpers extractThemeFromTask / extractCategoryFromTask, *)
(*   - the response extraction parseAIResponse,                            *)
(*   - the GET /api/emails route,                                          *)
(*   - the auth status and login routes, the draft and assistant routes,   *)
(*   - the handlers of the Home, Organize and Todo pages.                  *)
(* Text is modelled at two levels.  Titles and descriptions are sequences  *)
(* of one-character strings, so that toLowerCase() and includes() are      *)
(* computed character by character.  A model reply is a sequence of        *)
(* lexical tokens (brackets, commas, object literals, fences, prose        *)
(* words), so that JSON.parse and the textual repairs act on the text.     *)
(***************************************************************************)
EXTENDS Integers, Sequences, FiniteSets, TLC

VARIABLES
    scenario,          \* which handler this behaviour exercises
    pc,                \* position of the handler in its code
    backend,           \* categorize: "ollama" or "openai" version of the route
    emailsIsArray,     \* whether the request's emails is an array
    emails,            \* the request's emails
    i,                 \* categorize: loop index of the batch loop
    categorizedEmails, \* categorize: the accumulated output array
    batchLog,          \* categorize: per batch, its input, reply and output span
    response,          \* the HTTP response of the route, or NoResponse
    exTitle,           \* extraction: the title argument
    exDescription,     \* extraction: the description argument
    exTheme,           \* extraction: result of extractThemeFromTask
    exCategory,        \* extraction: result of extractCategoryFromTask
    exText,            \* extraction: the reply text given to parseAIResponse
    exParsed,          \* extraction: result of parseAIResponse
    exWrapper,         \* extraction: how the reply words its array
    exElems,           \* extraction: the elements of the reply's array
    todoEmails,        \* Todo page: emails state
    selectedEmails,    \* Todo page: selectedEmails state (ids)
    tasks,             \* Todo page: tasks state
    taskLoading,       \* Todo page: taskLoading state
    alerts,            \* Todo page: number of alert() dialogs shown
    taskRequest,       \* generate-tasks: request in flight, or NoRequest
    taskReply,         \* generate-tasks: the model reply of the last request
    clock,             \* Todo page: the value Date.now() returns
    requests,          \* Todo page: number of generate-tasks requests sent
    messages,          \* emails route: listData.messages (ids)
    fetchOutcome,      \* emails route: per message, outcome of the detail fetch
    fetched,           \* emails route: the emails array
    hasToken,          \* emails route: whether the access_token cookie is set
    calls,             \* the external calls the current request has made, in order
    route,             \* single-shot routes: the route the request goes to
    env,               \* single-shot routes: which settings and services are present
    req,               \* single-shot routes: the request (body, cookies)
    cookies,           \* single-shot routes: the cookie store
    page,              \* pages: the page the user is on
    uiLog,             \* pages: the handler runs that completed, with their outcome
    uiError,           \* Home page: error state ("" for null)
    isAuthenticated,   \* Home page: isAuthenticated state
    uiEmails,          \* Home and Organize pages: number of emails in the emails state
    assistantMessages, \* Organize and Todo pages: assistantMessages state
    draftResponse,     \* Organize page: whether draftResponse holds a draft
    inflight,          \* pages: per handler, the number of its fetches in flight
    loading,           \* Organize page: loading state
    categorizing,      \* Organize page: categorizing state
    assistantLoading,  \* Organize and Todo pages: assistantLoading state
    isLoading,         \* Home page: isLoading state
    orgEmails,         \* Organize page: emails state
    filteredEmails,    \* Organize page: filteredEmails state
    searchTerm,        \* Organize page: searchTerm state
    selectedTheme,     \* Organize page: selectedTheme state
    currentPage,       \* Organize page: currentPage state
    categorizeSent     \* Organize page: the categorize request in flight (the emails
                       \* sent, and the list shown when it was sent)

catVars == << backend, emailsIsArray, emails, i, categorizedEmails, batchLog >>
exVars == << exTitle, exDescription, exTheme, exCategory, exText, exParsed,
             exWrapper, exElems >>
todoVars == << todoEmails, selectedEmails, tasks, taskLoading, alerts,
               taskRequest, taskReply, clock, requests >>
mailVars == << messages, fetchOutcome, fetched, hasToken >>

routeVars == << route, env, req, cookies >>
uiVars == << page, uiLog, uiError, isAuthenticated, uiEmails, assistantMessages,
             draftResponse >>
loadVars == << inflight, loading, categorizing, assistantLoading, isLoading >>
orgVars == << orgEmails, filteredEmails, searchTerm, selectedTheme, currentPage,
              categorizeSent >>

vars == << scenario, pc, response, calls, catVars, exVars, todoVars, mailVars, routeVars,
          uiVars, loadVars, orgVars >>

-----------------------------------------------------------------------------
(* Bounds of the model.                                                    *)

\* Largest number of emails in one categorize request (two batches).
MaxEmails == 11
\* Largest number of emails the Todo page holds.
MaxTodoEmails == 2
\* Largest number of generate-tasks requests the Todo page sends.
MaxRequests == 2
\* Largest number of messages Gmail lists for GET /api/emails.
MaxMessages == 4
\* Largest number of elements of a reply given to parseAIResponse alone.
MaxElems == 3
\* Longest conversationHistory of an assistant request.
MaxHistory == 12
\* Largest number of handler runs on a page.
MaxActions == 3

-----------------------------------------------------------------------------
(* Character strings.                                                      *)

Upper == <<"A","B","C","D","E","F","G","H","I","J","K","L","M","N","O","P","Q","R","S","T","U","V","W","X","Y","Z">>
LowerOf == <<"a","b","c","d","e","f","g","h","i","j","k","l","m","n","o","p","q","r","s","t","u","v","w","x","y","z">>

\* String.prototype.toLowerCase on one character.
LowerChar(c) ==
    IF \E k \in 1..Len(Upper) : Upper[k] = c
    THEN LowerOf[CHOOSE k \in 1..Len(Upper) : Upper[k] = c]
    ELSE c

\* String.prototype.toLowerCase.
toLowerCase(s) == [k \in 1..Len(s) |-> LowerChar(s[k])]

\* String.prototype.includes: kw occurs in text as a contiguous substring.
includes(text, kw) ==
    \E k \in 1..(Len(text) - Len(kw) + 1) : SubSeq(text, k, k + Len(kw) - 1) = kw

\* What a template literal `${v}` yields for an absent (undefined) value.
STR_undefined == <<"u","n","d","e","f","i","n","e","d">>

KW_work == <<"w","o","r","k">>
KW_meeting == <<"m","e","e","t","i","n","g">>
KW_project == <<"p","r","o","j","e","c","t">>
KW_client == <<"c","l","i","e","n","t">>
KW_personal == <<"p","e","r","s","o","n","a","l">>
KW_family == <<"f","a","m","i","l","y">>
KW_friend == <<"f","r","i","e","n","d">>
KW_finance == <<"f","i","n","a","n","c","e">>
KW_money == <<"m","o","n","e","y">>
KW_payment == <<"p","a","y","m","e","n","t">>
KW_bill == <<"b","i","l","l">>
KW_shopping == <<"s","h","o","p","p","i","n","g">>
KW_purchase == <<"p","u","r","c","h","a","s","e">>
KW_buy == <<"b","u","y">>
KW_travel == <<"t","r","a","v","e","l">>
KW_trip == <<"t","r","i","p">>
KW_flight == <<"f","l","i","g","h","t">>
KW_health == <<"h","e","a","l","t","h">>
KW_medical == <<"m","e","d","i","c","a","l">>
KW_doctor == <<"d","o","c","t","o","r">>
KW_education == <<"e","d","u","c","a","t","i","o","n">>
KW_course == <<"c","o","u","r","s","e">>
KW_learning == <<"l","e","a","r","n","i","n","g">>
KW_reply == <<"r","e","p","l","y">>
KW_respond == <<"r","e","s","p","o","n","d">>
KW_draft == <<"d","r","a","f","t">>

-----------------------------------------------------------------------------
(* extractThemeFromTask and extractCategoryFromTask.                       *)

\* The text compared without lower-casing it.
TaskText_NoLower(title, description) == title \o <<" ">> \o description

\* `${title} ${description}`.toLowerCase()
TaskText(title, description) == toLowerCase(title \o <<" ">> \o description)

\* The lookup with the travel group tested before the finance group.
extractThemeFromTask_TravelFirst(title, description) ==
    LET text == TaskText(title, description) IN
    IF includes(text, KW_work) \/ includes(text, KW_meeting)
         \/ includes(text, KW_project) \/ includes(text, KW_client)
    THEN "work"
    ELSE IF includes(text, KW_personal) \/ includes(text, KW_family)
         \/ includes(text, KW_friend)
    THEN "personal"
    ELSE IF includes(text, KW_travel) \/ includes(text, KW_trip)
         \/ includes(text, KW_flight)
    THEN "travel"
    ELSE IF includes(text, KW_finance) \/ includes(text, KW_money)
         \/ includes(text, KW_payment) \/ includes(text, KW_bill)
    THEN "finance"
    ELSE IF includes(text, KW_shopping) \/ includes(text, KW_purchase)
         \/ includes(text, KW_buy)
    THEN "shopping"
    ELSE IF includes(text, KW_health) \/ includes(text, KW_medical)
         \/ includes(text, KW_doctor)
    THEN "health"
    ELSE IF includes(text, KW_education) \/ includes(text, KW_course)
         \/ includes(text, KW_learning)
    THEN "education"
    ELSE "other"

extractThemeFromTask(title, description) ==
    LET text == TaskText(title, description) IN
    IF includes(text, KW_work) \/ includes(text, KW_meeting)
         \/ includes(text, KW_project) \/ includes(text, KW_client)
    THEN "work"
    ELSE IF includes(text, KW_personal) \/ includes(text, KW_family)
         \/ includes(text, KW_friend)
    THEN "personal"
    ELSE IF includes(text, KW_finance) \/ includes(text, KW_money)
         \/ includes(text, KW_payment) \/ includes(text, KW_bill)
    THEN "finance"
    ELSE IF includes(text, KW_shopping) \/ includes(text, KW_purchase)
         \/ includes(text, KW_buy)
    THEN "shopping"
    ELSE IF includes(text, KW_travel) \/ includes(text, KW_trip)
         \/ includes(text, KW_flight)
    THEN "travel"
    ELSE IF includes(text, KW_health) \/ includes(text, KW_medical)
         \/ includes(text, KW_doctor)
    THEN "health"
    ELSE IF includes(text, KW_education) \/ includes(text, KW_course)
         \/ includes(text, KW_learning)
    THEN "education"
    ELSE "other"

extractCategoryFromTask(title, description) ==
    LET text == TaskText(title, description) IN
    IF includes(text, KW_meeting) THEN "meeting"
    ELSE IF includes(text, KW_project) THEN "project"
    ELSE IF includes(text, KW_client) THEN "client"
    ELSE IF includes(text, KW_payment) THEN "payment"
    ELSE IF includes(text, KW_purchase) THEN "purchase"
    ELSE IF includes(text, KW_trip) THEN "trip"
    ELSE IF includes(text, KW_medical) THEN "medical"
    ELSE IF includes(text, KW_course) THEN "course"
    ELSE "general"

-----------------------------------------------------------------------------
(* Reply text as a sequence of lexical tokens.                             *)

LB == [k |-> "["]
RB == [k |-> "]"]
COMMA == [k |-> ","]
WS == [k |-> "ws"]          \* white space, line breaks
FENCE == [k |-> "fence"]    \* a markdown code-fence marker, ``` or ```json
WORD == [k |-> "word"]      \* a word of prose
NULLTOK == [k |-> "null"]   \* the JSON literal null

\* An object literal { ... } with members v; q tells whether its keys and
\* strings are written with double ("dq") or single ("sq") quotes, tc whether
\* a comma follows its last member.
ObjTok(v, q, tc) == [k |-> "obj", v |-> v, q |-> q, tc |-> tc]

\* The JavaScript value null.
JSNull == [jsnull |-> TRUE]

\* The text without its white space (JSON.parse skips it between tokens).
SkipWS(t) == SelectSeq(t, LAMBDA x : x # WS)

\* A token that JSON.parse accepts as a value.
IsJSONValueTok(x) ==
    \/ x = NULLTOK
    \/ x.k = "obj" /\ x.q = "dq" /\ ~x.tc

\* The value JSON.parse yields for a value token.
TokValue(x) == IF x = NULLTOK THEN JSNull ELSE x.v

\* JSON.parse(text): ok is FALSE when it throws a SyntaxError; otherwise val is
\* the parsed value, and isArray tells whether it is an array.
JSONParse(text) ==
    LET s == SkipWS(text)
        n == Len(s)
        inner == SubSeq(s, 2, n - 1)
        m == Len(inner)
    IN  IF n = 1 /\ IsJSONValueTok(s[1])
        THEN [ok |-> TRUE, isArray |-> FALSE, val |-> TokValue(s[1])]
        ELSE IF n >= 2 /\ s[1] = LB /\ s[n] = RB /\ m = 0
        THEN [ok |-> TRUE, isArray |-> TRUE, val |-> <<>>]
        ELSE IF /\ n >= 2 /\ s[1] = LB /\ s[n] = RB /\ m % 2 = 1
                /\ \A j \in 1..m : IF j % 2 = 1 THEN IsJSONValueTok(inner[j])
                                                ELSE inner[j] = COMMA
        THEN [ok |-> TRUE, isArray |-> TRUE,
              val |-> [j \in 1..((m + 1) \div 2) |-> TokValue(inner[2 * j - 1])]]
        ELSE [ok |-> FALSE, isArray |-> FALSE, val |-> <<>>]

-----------------------------------------------------------------------------
(* parseAIResponse (lib/json-helper): the extraction phase.                *)

\* An extraction that leaves the surrounding prose in place.
SliceBrackets_None(t) == t

\* Slice from the first "[" to the last "]".
SliceBrackets(t) ==
    LET lbs == {j \in 1..Len(t) : t[j] = LB}
        rbs == {j \in 1..Len(t) : t[j] = RB}
    IN  IF lbs # {} /\ rbs # {}
           /\ (CHOOSE a \in lbs : \A b \in lbs : a <= b)
                < (CHOOSE a \in rbs : \A b \in rbs : a >= b)
        THEN SubSeq(t, CHOOSE a \in lbs : \A b \in lbs : a <= b,
                       CHOOSE a \in rbs : \A b \in rbs : a >= b)
        ELSE t

\* Strip the code-fence markers.
StripFences(t) == SelectSeq(t, LAMBDA x : x # FENCE)

\* Single-quoted keys and values become double-quoted.
NormalizeQuotes(t) ==
    [j \in 1..Len(t) |-> IF t[j].k = "obj" THEN [t[j] EXCEPT !.q = "dq"] ELSE t[j]]

\* The comma at position j is directly followed by a closing "]".
TrailingCommaAt(t, j) ==
    /\ t[j] = COMMA
    /\ \E m \in (j + 1)..Len(t) :
          t[m] = RB /\ \A n \in (j + 1)..(m - 1) : t[n] = WS

\* Remove the trailing commas before a closing "]" or "}".
RemoveTrailingCommas(t) ==
    LET F[j \in 0..Len(t)] ==
            IF j = 0 THEN <<>>
            ELSE IF TrailingCommaAt(t, j) THEN F[j - 1]
            ELSE IF t[j].k = "obj" THEN Append(F[j - 1], [t[j] EXCEPT !.tc = FALSE])
            ELSE Append(F[j - 1], t[j])
    IN  F[Len(t)]

\* The text parses as a JSON array.
ParsesAsArray(t) == JSONParse(t).ok /\ JSONParse(t).isArray

\* Direct parse, then the repairs in order, re-parsing after each; the first
\* success is returned, and the empty array when every attempt fails.
parseAIResponse(responseText) ==
    LET t1 == SliceBrackets(responseText)
        t2 == StripFences(t1)
        t3 == NormalizeQuotes(t2)
        t4 == RemoveTrailingCommas(t3)
    IN  IF ParsesAsArray(responseText) THEN JSONParse(responseText).val
        ELSE IF ParsesAsArray(t1) THEN JSONParse(t1).val
        ELSE IF ParsesAsArray(t2) THEN JSONParse(t2).val
        ELSE IF ParsesAsArray(t3) THEN JSONParse(t3).val
        ELSE IF ParsesAsArray(t4) THEN JSONParse(t4).val
        ELSE <<>>

-----------------------------------------------------------------------------
(* Requests and model replies.                                             *)

NoResponse == [status |-> 0]
NoRequest == [sent |-> FALSE, emails |-> <<>>]

Subjects == <<"Invoice due", "Team sync", "Trip itinerary">>

\* The k-th email of a request.  Odd ones come straight from Gmail (no body,
\* no theme); even ones carry a body and the page's theme and category.
Email(k) ==
    IF k % 2 = 1
    THEN [id |-> ToString(k), subject |-> Subjects[(k % 3) + 1],
          sender |-> "alice@example.com", date |-> "Mon, 1 Jul 2024",
          snippet |-> "snippet", labels |-> <<"INBOX">>]
    ELSE [id |-> ToString(k), subject |-> Subjects[(k % 3) + 1],
          sender |-> "bob@example.com", date |-> "Tue, 2 Jul 2024",
          snippet |-> "snippet", body |-> "body", labels |-> <<"INBOX", "UNREAD">>,
          theme |-> "uncategorized", category |-> "general"]

EmailList(n) == [k \in 1..n |-> Email(k)]

Themes == <<"work", "personal", "finance", "shopping", "travel", "health",
            "education", "other">>
ThemeSet == {Themes[k] : k \in 1..Len(Themes)}
Categories == <<"meeting", "invoice", "family">>

T_TeamMeeting == <<"T","e","a","m"," ","M","E","E","T","I","N","G">>
T_PayBill == <<"P","a","y"," ","t","h","e"," ","b","i","l","l">>
T_Hello == <<"H","e","l","l","o">>
T_Trip == <<"t","r","i","p">>

\* Elements as the categorize prompt asks for them: {id, theme, category}.
SchemaElem(id, j) ==
    [id |-> id, theme |-> Themes[(j % Len(Themes)) + 1],
     category |-> Categories[(j % Len(Categories)) + 1]]

\* Elements that break the requested schema.
OffSchemaPool(id) ==
    << [id |-> id, theme |-> "spam", category |-> "promo"],
       [id |-> id],
       JSNull,
       [id |-> id, theme |-> "", category |-> ""] >>

\* Task-shaped elements, as the generate-tasks prompt asks for them, and
\* task-shaped elements with fields missing or outside their enumerations.
TaskPool ==
    << [title |-> T_TeamMeeting, description |-> T_Hello, type |-> "response",
        priority |-> "high", assignedTo |-> "self", dueDate |-> "2024-07-30"],
       [description |-> T_TeamMeeting, type |-> "action", priority |-> "low"],
       [title |-> T_PayBill, description |-> T_Trip, type |-> "follow-up",
        priority |-> "urgent", assignedTo |-> "self"],
       [title |-> <<>>, description |-> T_TeamMeeting, type |-> "team-workflow",
        priority |-> "medium"],
       [title |-> T_Hello, type |-> "reminder", priority |-> "asap",
        status |-> "done", emailId |-> "none"],
       [title |-> T_Hello, description |-> T_TeamMeeting] >>

ElemStyles == {"schema", "swapped", "offschema", "task"}

\* The j-th element of a reply in the given style for a batch.
Elem(style, batch, j) ==
    LET n == Len(batch)
        idAt == IF j <= n THEN batch[j].id ELSE "extra"
        idRev == IF j <= n THEN batch[n + 1 - j].id ELSE "extra"
    IN  CASE style = "schema" -> SchemaElem(idAt, j)
          [] style = "swapped" -> SchemaElem(idRev, j)
          [] style = "offschema" -> OffSchemaPool(idAt)[((j - 1) % 4) + 1]
          [] OTHER -> TaskPool[((j - 1) % Len(TaskPool)) + 1]

Elems(style, batch, len) == [j \in 1..len |-> Elem(style, batch, j)]

\* The text of a JSON array of the elements, written with the given quotes,
\* with or without a trailing comma.
ArrayText(elems, q, tc) ==
    LET tok(x) == IF x = JSNull THEN NULLTOK ELSE ObjTok(x, q, tc)
        body[j \in 0..Len(elems)] ==
            IF j = 0 THEN <<>>
            ELSE IF j = 1 THEN <<tok(elems[1])>>
            ELSE body[j - 1] \o <<COMMA, WS, tok(elems[j])>>
    IN  <<LB>> \o body[Len(elems)]
             \o (IF tc /\ Len(elems) > 0 THEN <<COMMA>> ELSE <<>>) \o <<RB>>

Wrappers == {"bare", "fenced", "prose", "bracketprose", "singlequoted"}

\* The reply holding the array of elems, in one of the ways a model words it.
Wrap(w, elems) ==
    CASE w = "bare" -> ArrayText(elems, "dq", FALSE)
      [] w = "fenced" ->
            <<FENCE, WS>> \o ArrayText(elems, "dq", FALSE) \o <<WS, FENCE>>
      [] w = "prose" -> <<WORD, WS, WORD, WS>> \o ArrayText(elems, "dq", FALSE)
      [] w = "bracketprose" ->
            <<WORD, WS, LB, WORD, RB, WS>> \o ArrayText(elems, "dq", FALSE)
      [] OTHER -> <<WORD, WS>> \o ArrayText(elems, "sq", TRUE)

\* Replies that hold no array: the empty text, a refusal in prose, the
\* literal null, a single object.
NonArrayTexts ==
    { <<>>, <<WORD, WS, WORD>>, <<NULLTOK>>,
      <<ObjTok([id |-> "1", theme |-> "work", category |-> "meeting"], "dq", FALSE)>> }

\* The array lengths tried against a batch of n emails.
ReplyLens(n) == {0, 1, n - 1, n, n + 1} \cap (0..(n + 1))

\* The reply texts tried against a batch.
ReplyTexts(batch) ==
    { Wrap(w, Elems(st, batch, len)) :
          w \in Wrappers, st \in ElemStyles, len \in ReplyLens(Len(batch)) }
      \cup NonArrayTexts

-----------------------------------------------------------------------------
(* The categorize route: POST /api/organize/categorize.                    *)

batchSize == 10

\* One external call of a handler: ollama.list() ("list"), a chat completion
\* ("chat") with the number of emails its prompt carries and the messages it
\* sends, or a Gmail request ("gmail"); and how the call ended.
Call(kind, emailCount, msgs, outcome) ==
    [kind |-> kind, emails |-> emailCount, messages |-> msgs, outcome |-> outcome]

\* How a chat call ended, from what it did.
ChatOutcome(throws, text) ==
    IF throws THEN "throws" ELSE IF text = <<>> THEN "empty" ELSE "text"

\* The two messages (system, user prompt) of a one-prompt chat call.
PromptMessages(purpose) ==
    << [role |-> "system", content |-> [kind |-> "system", of |-> purpose]],
       [role |-> "user", content |-> [kind |-> "prompt", of |-> purpose]] >>

\* { ...email, theme, category }
Spread(email, theme, category) ==
    [f \in (DOMAIN email) \cup {"theme", "category"} |->
        IF f = "theme" THEN theme
        ELSE IF f = "category" THEN category
        ELSE email[f]]

\* emails.slice(i, i + batchSize)
Batch(all, from) ==
    SubSeq(all, from + 1, IF from + batchSize < Len(all) THEN from + batchSize ELSE Len(all))

\* The number of chat calls a categorize request of n emails makes.
BatchCount(n) == (n + batchSize - 1) \div batchSize

\* The fallback categorization of the catch block.
Fallback(batch) == [j \in 1..Len(batch) |-> Spread(batch[j], "other", "general")]

\* `${categorized.description}` of an element.
DescriptionOf(categorized) ==
    IF "description" \in DOMAIN categorized THEN categorized.description
    ELSE STR_undefined

\* categorized && categorized.title
HasTitle(categorization, index) ==
    /\ index <= Len(categorization)
    /\ categorization[index] # JSNull
    /\ "title" \in DOMAIN categorization[index]
    /\ categorization[index].title # <<>>

\* An extraction that throws when the direct parse and every repair fail.
parseAIResponseThrows_OnFailure(responseText) ==
    /\ ~ParsesAsArray(responseText)
    /\ ~ParsesAsArray(SliceBrackets(responseText))
    /\ ~ParsesAsArray(StripFences(SliceBrackets(responseText)))
    /\ ~ParsesAsArray(NormalizeQuotes(StripFences(SliceBrackets(responseText))))
    /\ ~ParsesAsArray(RemoveTrailingCommas(NormalizeQuotes(StripFences(SliceBrackets(responseText)))))

\* Whether parseAIResponse throws on a text (the callers wrap it in try/catch):
\* it never does, a text it cannot repair yields the empty array.
parseAIResponseThrows(responseText) == FALSE

\* The records the Ollama version pushes for one batch and one reply text.
MergeOllama(batch, responseText) ==
    IF responseText = <<>> THEN <<>>
    ELSE IF parseAIResponseThrows(responseText) THEN Fallback(batch)
    ELSE LET categorization == parseAIResponse(responseText) IN
         [index \in 1..Len(batch) |->
            IF HasTitle(categorization, index)
            THEN LET categorized == categorization[index] IN
                 Spread(batch[index],
                        extractThemeFromTask(categorized.title, DescriptionOf(categorized)),
                        extractCategoryFromTask(categorized.title, DescriptionOf(categorized)))
            ELSE Spread(batch[index], "other", "general")]

\* categorized.theme || 'other' and categorized.category || 'general'
FieldOr(categorized, f, default) ==
    IF f \in DOMAIN categorized /\ categorized[f] # "" THEN categorized[f] ELSE default

\* The records the OpenAI version pushes for one batch and one reply text.
MergeOpenAI(batch, responseText) ==
    IF responseText = <<>> THEN <<>>
    ELSE LET parsed == JSONParse(responseText) IN
         IF ~parsed.ok THEN Fallback(batch)
         ELSE IF ~parsed.isArray /\ parsed.val = JSNull THEN Fallback(batch)
         ELSE LET categorization == IF parsed.isArray THEN parsed.val ELSE <<>> IN
              [index \in 1..Len(batch) |->
                 IF index <= Len(categorization) /\ categorization[index] # JSNull
                 THEN Spread(batch[index],
                             FieldOr(categorization[index], "theme", "other"),
                             FieldOr(categorization[index], "category", "general"))
                 ELSE Spread(batch[index], "other", "general")]

\* The array the route obtains from the reply: parseAIResponse's result in the
\* Ollama version, JSON.parse's in the OpenAI version (none when it throws or
\* yields no array).
ParsedReply(version, responseText) ==
    IF version = "ollama"
    THEN [isArray |-> ~parseAIResponseThrows(responseText),
          val |-> parseAIResponse(responseText)]
    ELSE [isArray |-> JSONParse(responseText).ok /\ JSONParse(responseText).isArray,
          val |-> JSONParse(responseText).val]

\* A merge that drops the emails the reply has no element for.
MergeBatch_DropMissing(version, batch, responseText) ==
    LET full == IF version = "ollama" THEN MergeOllama(batch, responseText)
                ELSE MergeOpenAI(batch, responseText)
        p == ParsedReply(version, responseText)
    IN  IF responseText # <<>> /\ p.isArray /\ Len(p.val) < Len(batch)
        THEN SubSeq(full, 1, Len(p.val))
        ELSE full

\* A merge whose OpenAI version attaches the element whose id names the email,
\* not the element at the email's position.
MergeBatch_ById(version, batch, responseText) ==
    LET p == ParsedReply(version, responseText)
        arr == IF p.isArray THEN p.val ELSE <<>>
        named(e) == {j \in 1..Len(arr) : arr[j] # JSNull /\ "id" \in DOMAIN arr[j]
                                          /\ arr[j].id = e.id}
        pick(e) == arr[CHOOSE j \in named(e) : \A m \in named(e) : j <= m]
    IN  IF version = "ollama" THEN MergeOllama(batch, responseText)
        ELSE IF responseText = <<>> THEN <<>>
        ELSE [index \in 1..Len(batch) |->
                IF named(batch[index]) # {}
                THEN Spread(batch[index],
                            FieldOr(pick(batch[index]), "theme", "other"),
                            FieldOr(pick(batch[index]), "category", "general"))
                ELSE Spread(batch[index], "other", "general")]

MergeBatch(version, batch, responseText) ==
    IF version = "ollama" THEN MergeOllama(batch, responseText)
    ELSE MergeOpenAI(batch, responseText)

\* Entry of the handler: the availability check (ollama.list(), or the
\* OPENAI_API_KEY check) and the validation of the request's emails.
CategorizeStart ==
    /\ scenario = "categorize" /\ pc = "start"
    /\ LET available == IF backend = "ollama" THEN env.ollamaUp ELSE env.openaiKey IN
         /\ calls' = IF backend = "ollama"
                     THEN << Call("list", 0, <<>>, IF available THEN "ok" ELSE "throws") >>
                     ELSE <<>>
         /\ IF ~available
            THEN /\ response' = [status |-> 500,
                                 error |-> IF backend = "ollama"
                                           THEN "Ollama server not available. Please start Ollama with: ollama serve"
                                           ELSE "OpenAI API key not configured"]
                 /\ pc' = "done"
            ELSE IF ~emailsIsArray
            THEN /\ response' = [status |-> 400, error |-> "Invalid emails data"]
                 /\ pc' = "done"
            ELSE /\ pc' = "loop"
                 /\ UNCHANGED response
    /\ UNCHANGED << scenario, loadVars, orgVars, uiVars, routeVars, catVars, exVars, todoVars, mailVars >>

\* One iteration of the batch loop: the chat call and the merge of its reply.
\* A chat call that throws leaves the loop for the outer catch.
CategorizeBatch ==
    /\ scenario = "categorize" /\ pc = "loop" /\ i < Len(emails)
    /\ LET batch == Batch(emails, i) IN
       \/ /\ response' = [status |-> 500, error |-> "Failed to categorize emails"]
          /\ pc' = "done"
          /\ calls' = Append(calls, Call("chat", Len(batch), PromptMessages("categorize"),
                                         ChatOutcome(TRUE, <<>>)))
          /\ UNCHANGED << i, categorizedEmails, batchLog >>
       \/ \E responseText \in ReplyTexts(batch) :
            LET pushed == MergeBatch(backend, batch, responseText) IN
            /\ calls' = Append(calls, Call("chat", Len(batch), PromptMessages("categorize"),
                                           ChatOutcome(FALSE, responseText)))
            /\ categorizedEmails' = categorizedEmails \o pushed
            /\ batchLog' = Append(batchLog,
                                  [batch |-> batch, reply |-> responseText,
                                   from |-> Len(categorizedEmails),
                                   to |-> Len(categorizedEmails) + Len(pushed)])
            /\ i' = i + batchSize
            /\ UNCHANGED << pc, response >>
    /\ UNCHANGED << scenario, loadVars, orgVars, uiVars, routeVars, backend, emailsIsArray, emails,
                    exVars, todoVars, mailVars >>

\* return NextResponse.json(categorizedEmails)
CategorizeReturn ==
    /\ scenario = "categorize" /\ pc = "loop" /\ i >= Len(emails)
    /\ response' = [status |-> 200, body |-> categorizedEmails]
    /\ pc' = "done"
    /\ UNCHANGED << scenario, loadVars, orgVars, uiVars, calls, routeVars, catVars, exVars, todoVars, mailVars >>

\* The variables the categorize route does not use, at rest.
IdleExtract ==
    /\ exTitle = <<>> /\ exDescription = <<>> /\ exTheme = "" /\ exCategory = ""
    /\ exText = <<>> /\ exParsed = <<>> /\ exWrapper = "bare" /\ exElems = <<>>

IdleTodo ==
    /\ todoEmails = <<>> /\ selectedEmails = <<>> /\ tasks = <<>>
    /\ taskLoading = FALSE /\ alerts = 0
    /\ taskRequest = NoRequest /\ taskReply = <<>>
    /\ clock = 0 /\ requests = 0

IdleEmailsRoute ==
    messages = <<>> /\ fetchOutcome = <<>> /\ fetched = <<>> /\ hasToken = FALSE

\* An environment with every setting present and every service reachable.
AllSet == [ollamaUp |-> TRUE, openaiKey |-> TRUE, clientId |-> TRUE, redirectUri |-> TRUE]

\* A request without a body and without cookies.
NoBody == [question |-> <<>>, hasEmail |-> FALSE, historyGiven |-> FALSE,
           history |-> <<>>, emails |-> <<>>, cookies |-> {}]

\* The handlers that await a fetch.
Handlers ==
    { "Home.checkAuthStatus", "Home.handleLogout", "Home.fetchEmails",
      "OrganizePage.loadEmails", "OrganizePage.categorizeEmails",
      "OrganizePage.askAssistant", "OrganizePage.generateDraftResponse",
      "TodoPage.askAssistant" }

NoneInFlight == [h \in Handlers |-> 0]

\* The number of fetches in flight.
TotalInFlight ==
    inflight["Home.checkAuthStatus"] + inflight["Home.handleLogout"]
    + inflight["Home.fetchEmails"] + inflight["OrganizePage.loadEmails"]
    + inflight["OrganizePage.categorizeEmails"] + inflight["OrganizePage.askAssistant"]
    + inflight["OrganizePage.generateDraftResponse"] + inflight["TodoPage.askAssistant"]

\* The number of handler runs the user has started on the page: the completed
\* ones, the ones in flight and the generate-tasks requests.
RunsStarted == Len(uiLog) + TotalInFlight + requests

NoCategorize == [emails |-> <<>>, listed |-> <<>>]

\* The state of a page before anything was loaded or typed.
FreshPage ==
    /\ uiLog = <<>> /\ uiError = "" /\ isAuthenticated = FALSE
    /\ uiEmails = 0 /\ assistantMessages = <<>> /\ draftResponse = FALSE
    /\ categorizing = FALSE /\ assistantLoading = FALSE
    /\ orgEmails = <<>> /\ filteredEmails = <<>> /\ searchTerm = ""
    /\ selectedTheme = "all" /\ currentPage = 1 /\ categorizeSent = NoCategorize

IdleUI ==
    /\ page = "none" /\ FreshPage
    /\ inflight = NoneInFlight /\ loading = FALSE /\ isLoading = FALSE

IdleRoutes ==
    /\ calls = <<>> /\ route = "none" /\ cookies = {}
    /\ env = AllSet
    /\ req = NoBody

IdleCategorize ==
    /\ backend = "ollama" /\ emailsIsArray = TRUE /\ emails = <<>> /\ i = 0
    /\ categorizedEmails = <<>> /\ batchLog = <<>>

InitCategorize ==
    /\ scenario = "categorize" /\ pc = "start"
    /\ backend \in {"ollama", "openai"}
    /\ \/ emailsIsArray = FALSE /\ emails = <<>>
       \/ emailsIsArray = TRUE /\ emails \in {EmailList(n) : n \in 0..MaxEmails}
    /\ i = 0 /\ categorizedEmails = <<>> /\ batchLog = <<>>
    /\ response = NoResponse
    /\ calls = <<>> /\ route = "none" /\ cookies = {} /\ req = NoBody
    /\ env \in IF backend = "ollama"
               THEN {[AllSet EXCEPT !.ollamaUp = u, !.openaiKey = k] :
                        u \in BOOLEAN, k \in BOOLEAN}
               ELSE {[AllSet EXCEPT !.openaiKey = k] : k \in BOOLEAN}
    /\ IdleExtract /\ IdleTodo /\ IdleUI /\ IdleEmailsRoute

-----------------------------------------------------------------------------
(* The generate-tasks route: POST /api/todo/generate-tasks.                *)

OllamaDownMessage == "Ollama server not available. Please start Ollama with: ollama serve"

\* What ollama.chat does: it throws, or it returns a completion whose message
\* content is the text (empty when the message is absent).
ChatThrows == [throws |-> TRUE, text |-> <<>>]
ChatReply(text) == [throws |-> FALSE, text |-> text]

\* The whole handler: the response for a request's emails, given whether
\* ollama.list() succeeds and what the chat call does.
GenerateTasksPOST(reqEmails, available, chat) ==
    IF Len(reqEmails) = 0
    THEN [status |-> 400, error |-> "No emails provided", tasks |-> <<>>]
    ELSE IF ~available
    THEN [status |-> 500, error |-> OllamaDownMessage, tasks |-> <<>>]
    ELSE IF chat.throws
    THEN [status |-> 500, error |-> "Failed to generate tasks", tasks |-> <<>>]
    ELSE IF chat.text = <<>>
    THEN [status |-> 500, error |-> "No response generated from AI", tasks |-> <<>>]
    ELSE IF parseAIResponseThrows(chat.text)
    THEN [status |-> 500, error |-> "Failed to parse AI response into valid tasks",
          tasks |-> <<>>]
    ELSE [status |-> 200, error |-> "", tasks |-> parseAIResponse(chat.text)]

\* The external calls the handler makes: none for an empty request, else
\* ollama.list(), and when that succeeds one chat call whose prompt carries
\* every email of the request.
GenerateTasksCalls(reqEmails, available, chat) ==
    IF Len(reqEmails) = 0 THEN <<>>
    ELSE IF ~available THEN << Call("list", 0, <<>>, "throws") >>
    ELSE << Call("list", 0, <<>>, "ok"),
            Call("chat", Len(reqEmails), PromptMessages("tasks"),
                 ChatOutcome(chat.throws, chat.text)) >>

\* The reply text the handler obtained from the chat call (empty when it made
\* no call, the call threw, or the message was empty or absent).
ModelReplyOf(reqEmails, available, chat) ==
    IF Len(reqEmails) = 0 \/ ~available \/ chat.throws THEN <<>> ELSE chat.text

-----------------------------------------------------------------------------
(* The Todo page.                                                          *)

\* The k-th email of the Todo page (its Email type has a body and no labels).
TodoEmail(k) ==
    [id |-> ToString(k), subject |-> Subjects[(k % 3) + 1],
     sender |-> "alice@example.com", snippet |-> "snippet", body |-> "body",
     date |-> "Mon, 1 Jul 2024"]

\* The reply texts tried against a generate-tasks request.
TaskReplyTexts(reqEmails) ==
    { <<>>, <<WORD, WS, WORD>>,
      Wrap("bare", Elems("task", reqEmails, 5)),
      Wrap("fenced", Elems("task", reqEmails, 2)),
      Wrap("bare", Elems("offschema", reqEmails, 3)) }

\* { ...task, id, createdAt, aiGenerated: true }
SpreadTask(task, id, createdAt) ==
    LET own == IF task = JSNull THEN {} ELSE DOMAIN task IN
    [f \in own \cup {"id", "createdAt", "aiGenerated"} |->
        IF f = "id" THEN id
        ELSE IF f = "createdAt" THEN createdAt
        ELSE IF f = "aiGenerated" THEN TRUE
        ELSE task[f]]

\* emails.filter(email => selectedEmails.includes(email.id))
SelectedEmailData ==
    SelectSeq(todoEmails, LAMBDA e : \E k \in 1..Len(selectedEmails) : selectedEmails[k] = e.id)

\* How a page's fetch ends: an OK response, an error response, or a rejected
\* fetch.
FetchOutcomes3 == {"ok", "error-response", "network-error"}

\* A completed run of a page handler.
Ran(action, outcome) == [action |-> action, outcome |-> outcome]

\* loadEmails on mount: the emails of GET /api/emails on an OK response,
\* nothing otherwise.
TodoLoadEmails ==
    /\ scenario = "todo" /\ pc = "start"
    /\ \E outcome \in FetchOutcomes3 :
         /\ uiLog' = Append(uiLog, Ran("TodoPage.loadEmails", outcome))
         /\ IF outcome = "ok"
            THEN \E n \in 0..MaxTodoEmails : todoEmails' = [k \in 1..n |-> TodoEmail(k)]
            ELSE UNCHANGED todoEmails
    /\ pc' = "ready"
    /\ UNCHANGED << scenario, loadVars, orgVars, page, uiError, isAuthenticated, uiEmails, assistantMessages,
                    draftResponse, calls, routeVars, response, catVars, exVars, mailVars,
                    selectedEmails, tasks, taskLoading, alerts, taskRequest, taskReply,
                    clock, requests >>

toggleEmailSelection ==
    /\ scenario = "todo" /\ pc = "ready"
    /\ \E k \in 1..Len(todoEmails) :
         LET emailId == todoEmails[k].id IN
         selectedEmails' =
            IF \E m \in 1..Len(selectedEmails) : selectedEmails[m] = emailId
            THEN SelectSeq(selectedEmails, LAMBDA id : id # emailId)
            ELSE Append(selectedEmails, emailId)
    /\ UNCHANGED << scenario, loadVars, orgVars, uiVars, calls, routeVars, pc, response, catVars, exVars, mailVars, todoEmails,
                    tasks, taskLoading, alerts, taskRequest, taskReply, clock, requests >>

\* generateTasksFromEmails up to its fetch: the guard on the selection, the
\* loading flag, and the request.
generateTasksFromEmails ==
    /\ scenario = "todo" /\ pc = "ready" /\ ~taskLoading
    /\ requests < MaxRequests /\ RunsStarted < MaxActions
    /\ IF Len(selectedEmails) = 0
       THEN /\ alerts' = alerts + 1
            /\ requests' = requests + 1
            /\ UNCHANGED << taskLoading, taskRequest >>
       ELSE /\ taskLoading' = TRUE
            /\ taskRequest' = [sent |-> TRUE, emails |-> SelectedEmailData]
            /\ requests' = requests + 1
            /\ UNCHANGED alerts
    /\ UNCHANGED << scenario, loadVars, orgVars, uiVars, calls, routeVars, pc, response, catVars, exVars, mailVars, todoEmails,
                    selectedEmails, tasks, taskReply, clock >>

\* The route handles the request in flight.
GenerateTasksRoute ==
    /\ scenario = "todo" /\ taskRequest.sent /\ response = NoResponse
    /\ \E available \in BOOLEAN :
       \E chat \in {ChatThrows} \cup {ChatReply(t) : t \in TaskReplyTexts(taskRequest.emails)} :
         /\ response' = GenerateTasksPOST(taskRequest.emails, available, chat)
         /\ taskReply' = ModelReplyOf(taskRequest.emails, available, chat)
         /\ calls' = GenerateTasksCalls(taskRequest.emails, available, chat)
    /\ UNCHANGED << scenario, loadVars, orgVars, uiVars, routeVars, pc, catVars, exVars, mailVars, todoEmails, selectedEmails,
                    tasks, taskLoading, alerts, taskRequest, clock, requests >>

\* generateTasksFromEmails after its fetch resolved with the route's response.
\* A handler whose finally block is skipped: the flag stays as it was.
AfterFinally_Skipped(flag) == flag

\* finally { setLoading(false) }, for each of the loading flags.
AfterFinally(flag) == FALSE

AppendTasks_Replace(prev, newTasks) == newTasks

\* setTasks(prev => [...prev, ...newTasks])
AppendTasks(prev, newTasks) == prev \o newTasks

generateTasksResponse ==
    /\ scenario = "todo" /\ taskRequest.sent /\ response # NoResponse
    /\ \E now \in {clock, clock + 1} :
         /\ clock' = now
         /\ IF response.status = 200
            THEN /\ tasks' = AppendTasks(tasks,
                       [index \in 1..Len(response.tasks) |->
                          SpreadTask(response.tasks[index], <<"task", now, index - 1>>, now)])
                 /\ selectedEmails' = <<>>
                 /\ UNCHANGED alerts
            ELSE /\ alerts' = alerts + 1
                 /\ UNCHANGED << tasks, selectedEmails >>
    /\ taskLoading' = AfterFinally(taskLoading)
    /\ taskRequest' = NoRequest
    /\ response' = NoResponse
    /\ UNCHANGED << scenario, loadVars, orgVars, uiVars, calls, routeVars, pc, catVars, exVars, mailVars, todoEmails, taskReply, requests >>

\* generateTasksFromEmails when its fetch rejects (the route is unreachable).
generateTasksNetworkError ==
    /\ scenario = "todo" /\ taskRequest.sent /\ response = NoResponse
    /\ alerts' = alerts + 1
    /\ taskLoading' = AfterFinally(taskLoading)
    /\ taskRequest' = NoRequest
    /\ UNCHANGED << scenario, loadVars, orgVars, uiVars, calls, routeVars, pc, response, catVars, exVars, mailVars, todoEmails,
                    selectedEmails, tasks, taskReply, clock, requests >>

InitTodo ==
    /\ scenario = "todo" /\ pc = "start"
    /\ response = NoResponse
    /\ IdleCategorize /\ IdleExtract /\ IdleTodo /\ IdleUI /\ IdleEmailsRoute /\ IdleRoutes

-----------------------------------------------------------------------------
(* The LLM routes and the page that calls them.                            *)

Init == InitCategorize \/ InitTodo

Next ==
    \/ CategorizeStart
    \/ CategorizeBatch
    \/ CategorizeReturn
    \/ TodoLoadEmails
    \/ toggleEmailSelection
    \/ generateTasksFromEmails
    \/ GenerateTasksRoute
    \/ generateTasksResponse
    \/ generateTasksNetworkError

Spec == Init /\ [][Next]_vars

-----------------------------------------------------------------------------
(* The keyword helpers on their own.                                       *)

SamplePhrases ==
  {
    <<"T","e","a","m"," ","M","E","E","T","I","N","G">>,
    <<"p","r","o","j","e","c","t">>,
    <<"C","l","i","e","n","t"," ","c","a","l","l">>,
    <<"f","a","m","i","l","y">>,
    <<"m","y"," ","f","r","i","e","n","d">>,
    <<"m","o","n","e","y">>,
    <<"P","a","y","m","e","n","t">>,
    <<"b","i","l","l">>,
    <<"S","h","o","p","p","i","n","g">>,
    <<"p","u","r","c","h","a","s","e">>,
    <<"b","u","y">>,
    <<"t","r","i","p">>,
    <<"F","L","I","G","H","T">>,
    <<"H","e","a","l","t","h">>,
    <<"m","e","d","i","c","a","l">>,
    <<"d","o","c","t","o","r">>,
    <<"c","o","u","r","s","e">>,
    <<"e","-","l","e","a","r","n","i","n","g">>,
    <<"H","e","l","l","o">>,
    <<"W","o","r","k","s","h","o","p">>,
    <<"m","e","e","t"," ","i","n","g">>,
    <<"p","e","r","s","o","n","a","l">>,
    <<"f","i","n","a","n","c","e">>,
    <<"t","r","a","v","e","l">>,
    <<"e","d","u","c","a","t","i","o","n">>
  }

ApplyExtractTheme ==
    /\ scenario = "keywords" /\ pc = "start"
    /\ exTheme' = extractThemeFromTask(exTitle, exDescription)
    /\ pc' = "theme"
    /\ UNCHANGED << scenario, loadVars, orgVars, uiVars, calls, routeVars, response, catVars, todoVars, mailVars, exTitle,
                    exDescription, exCategory, exText, exParsed, exWrapper, exElems >>

ApplyExtractCategory ==
    /\ scenario = "keywords" /\ pc = "theme"
    /\ exCategory' = extractCategoryFromTask(exTitle, exDescription)
    /\ pc' = "done"
    /\ UNCHANGED << scenario, loadVars, orgVars, uiVars, calls, routeVars, response, catVars, todoVars, mailVars, exTitle,
                    exDescription, exTheme, exText, exParsed, exWrapper, exElems >>

InitKeywords ==
    /\ scenario = "keywords" /\ pc = "start"
    /\ response = NoResponse
    /\ exTitle \in SamplePhrases
    /\ exDescription \in SamplePhrases \cup {<<>>, STR_undefined}
    /\ exTheme = "" /\ exCategory = ""
    /\ exText = <<>> /\ exParsed = <<>> /\ exWrapper = "bare" /\ exElems = <<>>
    /\ IdleCategorize /\ IdleTodo /\ IdleUI /\ IdleEmailsRoute /\ IdleRoutes

NextKeywords == ApplyExtractTheme \/ ApplyExtractCategory

SpecKeywords == InitKeywords /\ [][NextKeywords]_vars

-----------------------------------------------------------------------------
(* parseAIResponse on its own.                                             *)

ApplyParse ==
    /\ scenario = "parse" /\ pc = "start"
    /\ exParsed' = parseAIResponse(exText)
    /\ pc' = "done"
    /\ UNCHANGED << scenario, loadVars, orgVars, uiVars, calls, routeVars, response, catVars, todoVars, mailVars, exTitle,
                    exDescription, exTheme, exCategory, exText, exWrapper, exElems >>

InitParse ==
    /\ scenario = "parse" /\ pc = "start"
    /\ response = NoResponse
    /\ exTitle = <<>> /\ exDescription = <<>> /\ exTheme = "" /\ exCategory = ""
    /\ exWrapper \in Wrappers
    /\ exElems \in {Elems(st, EmailList(2), len) : st \in ElemStyles, len \in 0..MaxElems}
    /\ exText = Wrap(exWrapper, exElems)
    /\ exParsed = <<>>
    /\ IdleCategorize /\ IdleTodo /\ IdleUI /\ IdleEmailsRoute /\ IdleRoutes

NextParse == ApplyParse

SpecParse == InitParse /\ [][NextParse]_vars

-----------------------------------------------------------------------------
(* The emails route: GET /api/emails.                                      *)

\* What the detail fetch of one message does: an OK response, a non-OK
\* response, or a rejection (also when reading its JSON body throws).
FetchOutcomes == {"ok", "notok", "throws"}

\* The Email built from the detail of message id.
DetailEmail(id) ==
    [id |-> id, threadId |-> id, subject |-> "No Subject", sender |-> "Unknown",
     recipient |-> "Unknown", date |-> "Unknown", snippet |-> "",
     labels |-> <<>>]

\* A loop body that also pushes the message of a non-OK detail response.
FetchOne_PushNotOk(list, message, outcome) ==
    IF outcome # "throws" THEN Append(list, DetailEmail(message)) ELSE list

\* The body of the loop over messages: the emails array after one message.
FetchOne(list, message, outcome) ==
    IF outcome = "ok" THEN Append(list, DetailEmail(message)) ELSE list

\* Entry of the handler: the cookie check and the list call.
EmailsStart ==
    /\ scenario = "emails" /\ pc = "start"
    /\ IF ~hasToken
       THEN /\ response' = [status |-> 401, error |-> "Not authenticated"]
            /\ pc' = "done"
            /\ UNCHANGED messages
       ELSE \E list \in {"ok", "notok", "throws"} :
            IF list = "throws"
            THEN /\ response' = [status |-> 500, error |-> "Failed to retrieve emails"]
                 /\ pc' = "done"
                 /\ UNCHANGED messages
            ELSE IF list = "notok"
            THEN /\ response' = [status |-> 500, error |-> "Failed to retrieve email list"]
                 /\ pc' = "done"
                 /\ UNCHANGED messages
            ELSE \E n \in 0..MaxMessages :
                 /\ messages' = [k \in 1..n |-> ToString(k)]
                 /\ IF n = 0
                    THEN /\ response' = [status |-> 200, success |-> TRUE,
                                         emails |-> <<>>, total |-> 0]
                         /\ pc' = "done"
                    ELSE /\ pc' = "loop"
                         /\ UNCHANGED response
    /\ UNCHANGED << scenario, loadVars, orgVars, uiVars, calls, routeVars, catVars, exVars, todoVars, fetchOutcome, fetched, hasToken >>

\* One iteration of the loop over messages.
EmailsFetchOne ==
    /\ scenario = "emails" /\ pc = "loop" /\ Len(fetchOutcome) < Len(messages)
    /\ \E outcome \in FetchOutcomes :
         /\ fetched' = FetchOne(fetched, messages[Len(fetchOutcome) + 1], outcome)
         /\ fetchOutcome' = Append(fetchOutcome, outcome)
    /\ UNCHANGED << scenario, loadVars, orgVars, uiVars, calls, routeVars, pc, response, catVars, exVars, todoVars, messages, hasToken >>

\* return NextResponse.json({ success: true, emails, total: emails.length, ... })
EmailsReturn ==
    /\ scenario = "emails" /\ pc = "loop" /\ Len(fetchOutcome) = Len(messages)
    /\ response' = [status |-> 200, success |-> TRUE, emails |-> fetched,
                    total |-> Len(fetched)]
    /\ pc' = "done"
    /\ UNCHANGED << scenario, loadVars, orgVars, uiVars, calls, routeVars, catVars, exVars, todoVars, mailVars >>

InitEmails ==
    /\ scenario = "emails" /\ pc = "start"
    /\ response = NoResponse
    /\ hasToken \in BOOLEAN
    /\ messages = <<>> /\ fetchOutcome = <<>> /\ fetched = <<>>
    /\ IdleCategorize /\ IdleExtract /\ IdleTodo /\ IdleUI /\ IdleRoutes

NextEmails == EmailsStart \/ EmailsFetchOne \/ EmailsReturn

SpecEmails == InitEmails /\ [][NextEmails]_vars

-----------------------------------------------------------------------------
(* The single-shot routes: auth status, login, the drafts, the assistants, *)
(* and generate-tasks called directly.                                     *)

Routes == {"auth-status", "login", "draft", "draft-openai", "todo-assistant",
           "organize-assistant", "organize-assistant-openai", "generate-tasks"}

AuthCookies == {"access_token", "refresh_token"}

\* How the probe of the Gmail profile ends: an OK response, a non-OK response,
\* or a rejected fetch.
ProbeOutcomes == {"ok", "notok", "throws"}

\* A status check that leaves the cookie store alone when the probe is refused.
AuthStatus_KeepCookies(store, probe) ==
    IF "access_token" \notin store
    THEN [cookies |-> store, authenticated |-> FALSE, calls |-> <<>>]
    ELSE [cookies |-> store, authenticated |-> (probe = "ok"),
          calls |-> << Call("gmail", 0, <<>>, probe) >>]

\* GET /api/auth/status: the cookie store it leaves, its answer and the call
\* it made, given the cookie store and how the probe ends.
AuthStatus(store, probe) ==
    IF "access_token" \notin store
    THEN [cookies |-> store, authenticated |-> FALSE, calls |-> <<>>]
    ELSE IF probe = "throws"
    THEN [cookies |-> store, authenticated |-> FALSE,
          calls |-> << Call("gmail", 0, <<>>, probe) >>]
    ELSE IF probe = "notok"
    THEN [cookies |-> store \ AuthCookies, authenticated |-> FALSE,
          calls |-> << Call("gmail", 0, <<>>, probe) >>]
    ELSE [cookies |-> store, authenticated |-> TRUE,
          calls |-> << Call("gmail", 0, <<>>, probe) >>]

AuthStatusGET ==
    /\ scenario = "route" /\ route = "auth-status" /\ pc = "start"
    /\ \E probe \in ProbeOutcomes :
         LET r == AuthStatus(cookies, probe) IN
         /\ cookies' = r.cookies
         /\ calls' = r.calls
         /\ response' = [status |-> 200, authenticated |-> r.authenticated]
    /\ pc' = "done"
    /\ UNCHANGED << scenario, loadVars, orgVars, uiVars, route, env, req, catVars, exVars, todoVars, mailVars >>

\* A login that redirects whatever the configuration holds.
Login_AlwaysRedirects(e) ==
    [status |-> 307, redirect |-> "https://accounts.google.com/o/oauth2/auth"]

\* GET /api/auth/login: the response for an environment.
Login(e) ==
    IF ~e.clientId \/ ~e.redirectUri
    THEN [status |-> 500, error |-> "Missing Google OAuth configuration"]
    ELSE [status |-> 307, redirect |-> "https://accounts.google.com/o/oauth2/auth"]

LoginGET ==
    /\ scenario = "route" /\ route = "login" /\ pc = "start"
    /\ response' = Login(env)
    /\ calls' = <<>>
    /\ pc' = "done"
    /\ UNCHANGED << scenario, loadVars, orgVars, uiVars, routeVars, catVars, exVars, todoVars, mailVars >>

\* The fixed texts the handlers substitute for an empty or absent reply.
UnableToDraft == << [k |-> "fixed", text |-> "Unable to generate draft response."] >>
Apology == << [k |-> "fixed", text |-> "I apologize, but I couldn't process your request."] >>

\* completion.message?.content || fallback
TextOr(text, fallback) == IF text = <<>> THEN fallback ELSE text

\* What a chat call can do: with the backend unreachable it throws; otherwise
\* it throws, or returns an empty or absent message, or returns a text.
ChatsFor(up) ==
    IF up THEN {ChatThrows, ChatReply(<<>>), ChatReply(<<WORD, WS, WORD>>)}
    ELSE {ChatThrows}

ChatCall(emailCount, msgs, chat) ==
    Call("chat", emailCount, msgs, ChatOutcome(chat.throws, chat.text))

\* The draft route, POST /api/organize/draft (Ollama version).
DraftPOST(e, r, chat) ==
    IF ~e.ollamaUp
    THEN [response |-> [status |-> 500, error |-> OllamaDownMessage],
          calls |-> << Call("list", 0, <<>>, "throws") >>]
    ELSE IF ~r.hasEmail
    THEN [response |-> [status |-> 400, error |-> "Email is required"],
          calls |-> << Call("list", 0, <<>>, "ok") >>]
    ELSE IF chat.throws
    THEN [response |-> [status |-> 500, error |-> "Failed to generate draft response"],
          calls |-> << Call("list", 0, <<>>, "ok"),
                       ChatCall(1, PromptMessages("draft"), chat) >>]
    ELSE [response |-> [status |-> 200, draftResponse |-> TextOr(chat.text, UnableToDraft)],
          calls |-> << Call("list", 0, <<>>, "ok"),
                       ChatCall(1, PromptMessages("draft"), chat) >>]

\* The draft route, OpenAI version.
DraftOpenAIPOST(e, r, chat) ==
    IF ~e.openaiKey
    THEN [response |-> [status |-> 500, error |-> "OpenAI API key not configured"],
          calls |-> <<>>]
    ELSE IF ~r.hasEmail
    THEN [response |-> [status |-> 400, error |-> "Email is required"], calls |-> <<>>]
    ELSE IF chat.throws
    THEN [response |-> [status |-> 500, error |-> "Failed to generate draft response"],
          calls |-> << ChatCall(1, PromptMessages("draft"), chat) >>]
    ELSE [response |-> [status |-> 200, draftResponse |-> TextOr(chat.text, UnableToDraft)],
          calls |-> << ChatCall(1, PromptMessages("draft"), chat) >>]

\* conversationHistory.slice(-10)
recentHistory(conversationHistory) ==
    SubSeq(conversationHistory,
           IF Len(conversationHistory) > 10 THEN Len(conversationHistory) - 9 ELSE 1,
           Len(conversationHistory))

\* A history slice that keeps the first ten entries.
AssistantMessages_FirstTen(purpose, r, finalContent) ==
    LET kept == IF r.historyGiven
                THEN SubSeq(r.history, 1, IF Len(r.history) > 10 THEN 10 ELSE Len(r.history))
                ELSE <<>>
    IN  << [role |-> "system", content |-> [kind |-> "system", of |-> purpose]] >>
        \o [k \in 1..Len(kept) |-> [role |-> kept[k].role, content |-> kept[k].content]]
        \o << [role |-> "user", content |-> finalContent] >>

\* The messages array of an assistant route: the system prompt, the recent
\* history (role and content of each entry), the current question.
AssistantMessages(purpose, r, finalContent) ==
    LET kept == IF r.historyGiven THEN recentHistory(r.history) ELSE <<>>
    IN  << [role |-> "system", content |-> [kind |-> "system", of |-> purpose]] >>
        \o [k \in 1..Len(kept) |-> [role |-> kept[k].role, content |-> kept[k].content]]
        \o << [role |-> "user", content |-> finalContent] >>

\* The todo assistant, POST /api/todo/assistant.  The final message is the
\* question followed by the context built from the selected emails.
TodoAssistantPOST(e, r, chat) ==
    LET msgs == AssistantMessages("todo-assistant", r,
                    [kind |-> "question", question |-> r.question,
                     context |-> Len(r.emails)])
    IN  IF r.question = <<>>
        THEN [response |-> [status |-> 400, error |-> "No question provided"],
              calls |-> <<>>]
        ELSE IF ~e.ollamaUp
        THEN [response |-> [status |-> 500, error |-> OllamaDownMessage],
              calls |-> << Call("list", 0, <<>>, "throws") >>]
        ELSE IF chat.throws
        THEN [response |-> [status |-> 500, error |-> "Failed to process assistant request"],
              calls |-> << Call("list", 0, <<>>, "ok"), ChatCall(Len(r.emails), msgs, chat) >>]
        ELSE [response |-> [status |-> 200, response |-> TextOr(chat.text, Apology),
                            context |-> [selectedEmailsCount |-> Len(r.emails),
                                         tasksCount |-> 0]],
              calls |-> << Call("list", 0, <<>>, "ok"), ChatCall(Len(r.emails), msgs, chat) >>]

\* question mentions 'reply', 'respond' or 'draft' (in any letter case)
WantsDraft_CaseSensitive(question) ==
    \/ includes(question, KW_reply)
    \/ includes(question, KW_respond)
    \/ includes(question, KW_draft)

WantsDraft(question) ==
    \/ includes(toLowerCase(question), KW_reply)
    \/ includes(toLowerCase(question), KW_respond)
    \/ includes(toLowerCase(question), KW_draft)

\* An assistant that asks again when its answer call fails.
AnswerCalls_Retry(msgs, chat) ==
    IF chat.throws THEN << ChatCall(1, msgs, chat), ChatCall(1, msgs, chat) >>
    ELSE << ChatCall(1, msgs, chat) >>

\* The chat calls made for the answer: one, whatever its outcome.
AnswerCalls(msgs, chat) == << ChatCall(1, msgs, chat) >>

\* The organize assistant, POST /api/organize/assistant; the Ollama-backed and
\* the OpenAI-backed versions run the same checks and differ in the client
\* they call.  chat is the answer call, draftChat the draft call.
OrganizeAssistantPOST(e, r, chat, draftChat) ==
    LET msgs == AssistantMessages("organize-assistant", r,
                    [kind |-> "question", question |-> r.question])
    IN  IF ~e.openaiKey
        THEN [response |-> [status |-> 500, error |-> "OpenAI API key not configured"],
              calls |-> <<>>]
        ELSE IF ~r.hasEmail \/ r.question = <<>>
        THEN [response |-> [status |-> 400, error |-> "Email and question are required"],
              calls |-> <<>>]
        ELSE IF chat.throws
        THEN [response |-> [status |-> 500, error |-> "Failed to process assistant request"],
              calls |-> AnswerCalls(msgs, chat)]
        ELSE IF ~WantsDraft(r.question)
        THEN [response |-> [status |-> 200, response |-> TextOr(chat.text, Apology),
                            draftResponse |-> <<>>],
              calls |-> AnswerCalls(msgs, chat)]
        ELSE IF draftChat.throws
        THEN [response |-> [status |-> 500, error |-> "Failed to process assistant request"],
              calls |-> AnswerCalls(msgs, chat)
                         \o << ChatCall(1, PromptMessages("assistant-draft"), draftChat) >>]
        ELSE [response |-> [status |-> 200, response |-> TextOr(chat.text, Apology),
                            draftResponse |-> draftChat.text],
              calls |-> AnswerCalls(msgs, chat)
                         \o << ChatCall(1, PromptMessages("assistant-draft"), draftChat) >>]

\* The handlers as steps: each runs to its response.
DraftRoute ==
    /\ scenario = "route" /\ route = "draft" /\ pc = "start"
    /\ \E chat \in ChatsFor(env.ollamaUp) :
         /\ response' = DraftPOST(env, req, chat).response
         /\ calls' = DraftPOST(env, req, chat).calls
    /\ pc' = "done"
    /\ UNCHANGED << scenario, loadVars, orgVars, uiVars, routeVars, catVars, exVars, todoVars, mailVars >>

DraftOpenAIRoute ==
    /\ scenario = "route" /\ route = "draft-openai" /\ pc = "start"
    /\ \E chat \in ChatsFor(TRUE) :
         /\ response' = DraftOpenAIPOST(env, req, chat).response
         /\ calls' = DraftOpenAIPOST(env, req, chat).calls
    /\ pc' = "done"
    /\ UNCHANGED << scenario, loadVars, orgVars, uiVars, routeVars, catVars, exVars, todoVars, mailVars >>

TodoAssistantRoute ==
    /\ scenario = "route" /\ route = "todo-assistant" /\ pc = "start"
    /\ \E chat \in ChatsFor(env.ollamaUp) :
         /\ response' = TodoAssistantPOST(env, req, chat).response
         /\ calls' = TodoAssistantPOST(env, req, chat).calls
    /\ pc' = "done"
    /\ UNCHANGED << scenario, loadVars, orgVars, uiVars, routeVars, catVars, exVars, todoVars, mailVars >>

OrganizeAssistantRoute ==
    /\ scenario = "route" /\ route = "organize-assistant" /\ pc = "start"
    /\ \E chat, draftChat \in ChatsFor(env.ollamaUp) :
         /\ response' = OrganizeAssistantPOST(env, req, chat, draftChat).response
         /\ calls' = OrganizeAssistantPOST(env, req, chat, draftChat).calls
    /\ pc' = "done"
    /\ UNCHANGED << scenario, loadVars, orgVars, uiVars, routeVars, catVars, exVars, todoVars, mailVars >>

OrganizeAssistantOpenAIRoute ==
    /\ scenario = "route" /\ route = "organize-assistant-openai" /\ pc = "start"
    /\ \E chat, draftChat \in ChatsFor(TRUE) :
         /\ response' = OrganizeAssistantPOST(env, req, chat, draftChat).response
         /\ calls' = OrganizeAssistantPOST(env, req, chat, draftChat).calls
    /\ pc' = "done"
    /\ UNCHANGED << scenario, loadVars, orgVars, uiVars, routeVars, catVars, exVars, todoVars, mailVars >>

\* generate-tasks called directly with the request's emails.
GenerateTasksDirect ==
    /\ scenario = "route" /\ route = "generate-tasks" /\ pc = "start"
    /\ \E chat \in {ChatThrows} \cup {ChatReply(t) : t \in TaskReplyTexts(req.emails)} :
         /\ response' = GenerateTasksPOST(req.emails, env.ollamaUp, chat)
         /\ calls' = GenerateTasksCalls(req.emails, env.ollamaUp, chat)
    /\ pc' = "done"
    /\ UNCHANGED << scenario, loadVars, orgVars, uiVars, routeVars, catVars, exVars, todoVars, mailVars >>

\* The requests tried.
Q_Why == <<"W","h","y","?">>
Q_Reply == <<"R","E","P","L","Y">>
Q_Drafts == <<"d","r","a","f","t","s">>
Q_Respond == <<"R","e","s","p","o","n","d">>
Questions == {<<>>, Q_Why, Q_Reply, Q_Drafts, Q_Respond}

\* A conversation of n entries, user and assistant in turn.
History(n) ==
    [k \in 1..n |-> [role |-> IF k % 2 = 1 THEN "user" ELSE "assistant",
                     content |-> [kind |-> "history", k |-> k],
                     timestamp |-> k]]

\* The environments tried for a route: the settings and services it can
\* depend on vary, the others are present.
EnvFor(rt) ==
    IF rt = "login"
    THEN {[AllSet EXCEPT !.clientId = c, !.redirectUri = u] : c \in BOOLEAN, u \in BOOLEAN}
    ELSE IF rt = "auth-status" THEN {AllSet}
    ELSE IF rt \in {"draft-openai", "organize-assistant-openai"}
    THEN {[AllSet EXCEPT !.openaiKey = k] : k \in BOOLEAN}
    ELSE {[AllSet EXCEPT !.ollamaUp = u, !.openaiKey = k] : u \in BOOLEAN, k \in BOOLEAN}

ReqFor(rt) ==
    IF rt = "auth-status"
    THEN {[NoBody EXCEPT !.cookies = c] : c \in SUBSET (AuthCookies \cup {"theme"})}
    ELSE IF rt = "login" THEN {NoBody}
    ELSE IF rt \in {"draft", "draft-openai"}
    THEN {[NoBody EXCEPT !.hasEmail = h] : h \in BOOLEAN}
    ELSE IF rt = "generate-tasks"
    THEN {[NoBody EXCEPT !.emails = EmailList(n)] : n \in 0..MaxEmails}
    ELSE IF rt = "todo-assistant"
    THEN {[NoBody EXCEPT !.question = q, !.historyGiven = g, !.history = History(n),
                         !.emails = EmailList(m)] :
            q \in Questions, g \in BOOLEAN, n \in 0..MaxHistory, m \in 0..1}
    ELSE {[NoBody EXCEPT !.question = q, !.hasEmail = h, !.historyGiven = g,
                         !.history = History(n)] :
            q \in Questions, h \in BOOLEAN, g \in BOOLEAN, n \in 0..MaxHistory}

InitRoute ==
    /\ scenario = "route" /\ pc = "start"
    /\ route \in Routes
    /\ env \in EnvFor(route)
    /\ req \in ReqFor(route)
    /\ cookies = req.cookies
    /\ calls = <<>>
    /\ response = NoResponse
    /\ IdleCategorize /\ IdleExtract /\ IdleTodo /\ IdleUI /\ IdleEmailsRoute

InitRoutes == InitCategorize \/ InitRoute

NextRoutes ==
    \/ CategorizeStart
    \/ CategorizeBatch
    \/ CategorizeReturn
    \/ AuthStatusGET
    \/ LoginGET
    \/ DraftRoute
    \/ DraftOpenAIRoute
    \/ TodoAssistantRoute
    \/ OrganizeAssistantRoute
    \/ OrganizeAssistantOpenAIRoute
    \/ GenerateTasksDirect

SpecRoutes == InitRoutes /\ [][NextRoutes]_vars

(***************************************************************************)
(* The pages: Home, OrganizePage and TodoPage.  A handler that awaits a     *)
(* fetch is two steps: one up to the fetch, and one from the fetch's end,  *)
(* on one of the three ways a fetch can end, to the end of the handler.    *)
(***************************************************************************)

UserQuestion == [role |-> "user", kind |-> "question"]
AssistantAnswer == [role |-> "assistant", kind |-> "answer"]
\* The 'Error: ...' message TodoPage.askAssistant appends.
AssistantError == [role |-> "assistant", kind |-> "error"]

FailedToFetch == "Failed to fetch emails"

\* The fetch of handler h is sent; it settles.
Sent(h) == [inflight EXCEPT ![h] = @ + 1]
Settled(h) == [inflight EXCEPT ![h] = @ - 1]

\* The user can start one more run on page p.
CanRun(p) == scenario = "ui" /\ page = p /\ RunsStarted < MaxActions

\* The fetch of handler h on page p is about to settle.
Settles(p, h) == scenario = "ui" /\ page = p /\ inflight[h] > 0

\* Home.checkAuthStatus after its fetch: an answer sets isAuthenticated from
\* data.authenticated and, when authenticated, calls fetchEmails(), which sets
\* isLoading and sends its fetch before checkAuthStatus reaches its finally;
\* a rejected fetch is only logged to the console.  The finally clears
\* isLoading.
HomeCheckAuthStatus ==
    /\ Settles("home", "Home.checkAuthStatus")
    /\ \E outcome \in FetchOutcomes3, authenticated \in BOOLEAN :
         /\ outcome = "ok" \/ ~authenticated
         /\ uiLog' = Append(uiLog, Ran("Home.checkAuthStatus", outcome))
         /\ isAuthenticated' = IF outcome = "network-error" THEN isAuthenticated
                               ELSE authenticated
         /\ inflight' = IF authenticated
                        THEN [Settled("Home.checkAuthStatus") EXCEPT !["Home.fetchEmails"] = @ + 1]
                        ELSE Settled("Home.checkAuthStatus")
    /\ isLoading' = AfterFinally(isLoading)
    /\ UNCHANGED << scenario, page, uiError, uiEmails, assistantMessages, draftResponse,
                    loading, categorizing, assistantLoading, orgVars,
                    pc, response, calls, catVars, exVars, todoVars, mailVars, routeVars >>

\* The Refresh Emails button: fetchEmails up to its fetch.
HomeRefreshEmails ==
    /\ CanRun("home") /\ isAuthenticated /\ ~isLoading
    /\ isLoading' = TRUE
    /\ inflight' = Sent("Home.fetchEmails")
    /\ UNCHANGED << scenario, uiVars, loading, categorizing, assistantLoading, orgVars,
                    pc, response, calls, catVars, exVars, todoVars, mailVars, routeVars >>

\* Home.fetchEmails after its fetch: data.success sets the emails, anything
\* else sets error; the finally clears isLoading.
HomeFetchEmails ==
    /\ Settles("home", "Home.fetchEmails")
    /\ \E outcome \in FetchOutcomes3 :
         /\ uiLog' = Append(uiLog, Ran("Home.fetchEmails", outcome))
         /\ IF outcome = "ok"
            THEN /\ \E n \in 0..MaxTodoEmails : uiEmails' = n
                 /\ UNCHANGED uiError
            ELSE /\ uiError' = FailedToFetch
                 /\ UNCHANGED uiEmails
    /\ isLoading' = AfterFinally(isLoading)
    /\ inflight' = Settled("Home.fetchEmails")
    /\ UNCHANGED << scenario, page, isAuthenticated, assistantMessages, draftResponse,
                    loading, categorizing, assistantLoading, orgVars,
                    pc, response, calls, catVars, exVars, todoVars, mailVars, routeVars >>

\* The Logout button: handleLogout up to its fetch.
HomeLogoutClick ==
    /\ CanRun("home") /\ isAuthenticated /\ ~isLoading
    /\ inflight' = Sent("Home.handleLogout")
    /\ UNCHANGED << scenario, uiVars, loading, categorizing, assistantLoading, isLoading,
                    orgVars, pc, response, calls, catVars, exVars, todoVars, mailVars,
                    routeVars >>

\* Home.handleLogout after its fetch: any response signs the user out,
\* response.ok is not looked at; a rejected fetch is only logged to the
\* console.
HomeHandleLogout ==
    /\ Settles("home", "Home.handleLogout")
    /\ \E outcome \in FetchOutcomes3 :
         /\ uiLog' = Append(uiLog, Ran("Home.handleLogout", outcome))
         /\ IF outcome = "network-error"
            THEN UNCHANGED << isAuthenticated, uiEmails >>
            ELSE isAuthenticated' = FALSE /\ uiEmails' = 0
    /\ inflight' = Settled("Home.handleLogout")
    /\ UNCHANGED << scenario, page, uiError, assistantMessages, draftResponse,
                    loading, categorizing, assistantLoading, isLoading, orgVars,
                    pc, response, calls, catVars, exVars, todoVars, mailVars, routeVars >>

\* The numbers of emails GET /api/emails may return to the Organize page: none,
\* one, more than a page, more than categorizeEmails sends.
PageLoads == {0, 1, 11, 51}
itemsPerPage == 10
categorizeLimit == 50

\* What the search box may hold, and whether a text includes it.
SearchTerms == {"", "sync", "bob", "zzz"}
TextIncludes(text, term) ==
    \/ term = ""
    \/ term = "sync" /\ text = "Team sync"
    \/ term = "bob" /\ text = "bob@example.com"

\* The themes the theme filter offers here.
ThemeChoices == {"all", "work", "other"}

\* The emails OrganizePage.loadEmails stores for n emails of the response.
LoadedEmails(n) == [k \in 1..n |-> Spread(Email(k), "uncategorized", "general")]

\* The list filterEmails computes.
Filtered(list, term, theme) ==
    SelectSeq(list, LAMBDA email :
        /\ \/ TextIncludes(email.subject, term)
           \/ TextIncludes(email.sender, term)
           \/ TextIncludes(email.snippet, term)
        /\ theme = "all" \/ email.theme = theme)

\* Math.ceil(filteredEmails.length / itemsPerPage)
totalPages == (Len(filteredEmails) + itemsPerPage - 1) \div itemsPerPage

\* emails.slice(0, 50)
FirstFifty(list) ==
    SubSeq(list, 1, IF Len(list) < categorizeLimit THEN Len(list) ELSE categorizeLimit)

\* A success response of the categorize route to the emails sent: one record
\* per email with the reply's theme, except for the emails of a batch whose
\* reply was empty (batch number dropped; 0 for none), which are left out.
CategorizeResponse(sent, dropped, theme) ==
    LET kept == SelectSeq([k \in 1..Len(sent) |-> k],
                          LAMBDA k : ((k - 1) \div batchSize) + 1 # dropped)
    IN  [j \in 1..Len(kept) |-> Spread(sent[kept[j]], theme, "general")]

\* A filterEmails that leaves the page where it is.
FilterEffect_KeepPage ==
    /\ filteredEmails' = Filtered(orgEmails', searchTerm', selectedTheme')
    /\ UNCHANGED currentPage

\* The effect on [emails, searchTerm, selectedTheme]: filterEmails.
FilterEffect ==
    /\ filteredEmails' = Filtered(orgEmails', searchTerm', selectedTheme')
    /\ currentPage' = 1

\* The refresh button of the Organize page: loadEmails up to its fetch.
OrganizeLoadEmailsClick ==
    /\ CanRun("organize") /\ ~loading
    /\ loading' = TRUE
    /\ inflight' = Sent("OrganizePage.loadEmails")
    /\ UNCHANGED << scenario, uiVars, categorizing, assistantLoading, isLoading, orgVars,
                    pc, response, calls, catVars, exVars, todoVars, mailVars, routeVars >>

\* OrganizePage.loadEmails after its fetch: an OK response sets the emails; an
\* error response does nothing, a rejected fetch is only logged.  The finally
\* clears loading.
OrganizeLoadEmails ==
    /\ Settles("organize", "OrganizePage.loadEmails")
    /\ \E outcome \in FetchOutcomes3 :
         /\ uiLog' = Append(uiLog, Ran("OrganizePage.loadEmails", outcome))
         /\ IF outcome = "ok"
            THEN /\ \E n \in PageLoads : orgEmails' = LoadedEmails(n)
                 /\ UNCHANGED << searchTerm, selectedTheme >>
                 /\ FilterEffect
            ELSE UNCHANGED << orgEmails, filteredEmails, searchTerm, selectedTheme,
                              currentPage >>
    /\ loading' = AfterFinally(loading)
    /\ inflight' = Settled("OrganizePage.loadEmails")
    /\ UNCHANGED << scenario, page, uiError, isAuthenticated, uiEmails, assistantMessages,
                    draftResponse, categorizing, assistantLoading, isLoading,
                    categorizeSent, pc, response, calls, catVars, exVars, todoVars,
                    mailVars, routeVars >>

\* The AI Categorize button: categorizeEmails up to its fetch, which carries
\* the first 50 emails.
OrganizeCategorizeClick ==
    /\ CanRun("organize") /\ ~categorizing /\ Len(orgEmails) > 0
    /\ categorizing' = TRUE
    /\ categorizeSent' = [emails |-> FirstFifty(orgEmails), listed |-> orgEmails]
    /\ inflight' = Sent("OrganizePage.categorizeEmails")
    /\ UNCHANGED << scenario, uiVars, loading, assistantLoading, isLoading,
                    orgEmails, filteredEmails, searchTerm, selectedTheme, currentPage,
                    pc, response, calls, catVars, exVars, todoVars, mailVars, routeVars >>

\* OrganizePage.categorizeEmails after its fetch: an OK response replaces the
\* emails by the response; nothing else happens otherwise.  The finally
\* clears categorizing.
OrganizeCategorizeEmails ==
    /\ Settles("organize", "OrganizePage.categorizeEmails")
    /\ \E outcome \in FetchOutcomes3 :
         /\ uiLog' = Append(uiLog, Ran("OrganizePage.categorizeEmails", outcome))
         /\ IF outcome = "ok"
            THEN /\ \E dropped \in 0..BatchCount(Len(categorizeSent.emails)),
                       theme \in {"work", "other"} :
                      orgEmails' = CategorizeResponse(categorizeSent.emails, dropped, theme)
                 /\ UNCHANGED << searchTerm, selectedTheme >>
                 /\ FilterEffect
            ELSE UNCHANGED << orgEmails, filteredEmails, searchTerm, selectedTheme,
                              currentPage >>
    /\ categorizing' = AfterFinally(categorizing)
    /\ categorizeSent' = NoCategorize
    /\ inflight' = Settled("OrganizePage.categorizeEmails")
    /\ UNCHANGED << scenario, page, uiError, isAuthenticated, uiEmails, assistantMessages,
                    draftResponse, loading, assistantLoading, isLoading,
                    pc, response, calls, catVars, exVars, todoVars, mailVars, routeVars >>

\* The Ask button of the Organize page, with a question and a selected email:
\* askAssistant up to its fetch; the question is appended.
OrganizeAskClick ==
    /\ CanRun("organize") /\ ~assistantLoading /\ Len(orgEmails) > 0
    /\ assistantLoading' = TRUE
    /\ assistantMessages' = Append(assistantMessages, UserQuestion)
    /\ inflight' = Sent("OrganizePage.askAssistant")
    /\ UNCHANGED << scenario, page, uiLog, uiError, isAuthenticated, uiEmails, draftResponse,
                    loading, categorizing, isLoading, orgVars,
                    pc, response, calls, catVars, exVars, todoVars, mailVars, routeVars >>

\* OrganizePage.askAssistant after its fetch: an OK response appends the
\* answer and sets the draft (data.draftResponse || ''); nothing else happens
\* otherwise.  The finally clears assistantLoading.
OrganizeAskAssistant ==
    /\ Settles("organize", "OrganizePage.askAssistant")
    /\ \E outcome \in FetchOutcomes3, draft \in BOOLEAN :
         /\ outcome = "ok" \/ ~draft
         /\ uiLog' = Append(uiLog, Ran("OrganizePage.askAssistant", outcome))
         /\ IF outcome = "ok"
            THEN /\ assistantMessages' = Append(assistantMessages, AssistantAnswer)
                 /\ draftResponse' = draft
            ELSE UNCHANGED << assistantMessages, draftResponse >>
    /\ assistantLoading' = AfterFinally(assistantLoading)
    /\ inflight' = Settled("OrganizePage.askAssistant")
    /\ UNCHANGED << scenario, page, uiError, isAuthenticated, uiEmails,
                    loading, categorizing, isLoading, orgVars,
                    pc, response, calls, catVars, exVars, todoVars, mailVars, routeVars >>

\* The Generate Draft button, with a selected email: generateDraftResponse up
\* to its fetch.
OrganizeDraftClick ==
    /\ CanRun("organize") /\ ~assistantLoading /\ Len(orgEmails) > 0
    /\ assistantLoading' = TRUE
    /\ inflight' = Sent("OrganizePage.generateDraftResponse")
    /\ UNCHANGED << scenario, uiVars, loading, categorizing, isLoading, orgVars,
                    pc, response, calls, catVars, exVars, todoVars, mailVars, routeVars >>

\* OrganizePage.generateDraftResponse after its fetch: an OK response sets the
\* draft; nothing else happens otherwise.  The finally clears
\* assistantLoading.
OrganizeGenerateDraftResponse ==
    /\ Settles("organize", "OrganizePage.generateDraftResponse")
    /\ \E outcome \in FetchOutcomes3 :
         /\ uiLog' = Append(uiLog, Ran("OrganizePage.generateDraftResponse", outcome))
         /\ draftResponse' = IF outcome = "ok" THEN TRUE ELSE draftResponse
    /\ assistantLoading' = AfterFinally(assistantLoading)
    /\ inflight' = Settled("OrganizePage.generateDraftResponse")
    /\ UNCHANGED << scenario, page, uiError, isAuthenticated, uiEmails, assistantMessages,
                    loading, categorizing, isLoading, orgVars,
                    pc, response, calls, catVars, exVars, todoVars, mailVars, routeVars >>

\* Typing in the search box: setSearchTerm, then the filter effect.
setSearchTerm ==
    /\ CanRun("organize")
    /\ \E term \in SearchTerms \ {searchTerm} : searchTerm' = term
    /\ UNCHANGED << orgEmails, selectedTheme >>
    /\ FilterEffect
    /\ uiLog' = Append(uiLog, Ran("OrganizePage.setSearchTerm", "ok"))
    /\ UNCHANGED << scenario, page, uiError, isAuthenticated, uiEmails, assistantMessages,
                    draftResponse, loadVars, categorizeSent,
                    pc, response, calls, catVars, exVars, todoVars, mailVars, routeVars >>

\* Choosing a theme in the theme filter: setSelectedTheme, then the filter
\* effect.
setSelectedTheme ==
    /\ CanRun("organize")
    /\ \E theme \in ThemeChoices \ {selectedTheme} : selectedTheme' = theme
    /\ UNCHANGED << orgEmails, searchTerm >>
    /\ FilterEffect
    /\ uiLog' = Append(uiLog, Ran("OrganizePage.setSelectedTheme", "ok"))
    /\ UNCHANGED << scenario, page, uiError, isAuthenticated, uiEmails, assistantMessages,
                    draftResponse, loadVars, categorizeSent,
                    pc, response, calls, catVars, exVars, todoVars, mailVars, routeVars >>

\* The Previous button, rendered when totalPages > 1 and disabled on page 1.
PreviousPage ==
    /\ CanRun("organize") /\ totalPages > 1 /\ currentPage # 1
    /\ currentPage' = (IF 1 > currentPage - 1 THEN 1 ELSE currentPage - 1)
    /\ uiLog' = Append(uiLog, Ran("OrganizePage.Previous", "ok"))
    /\ UNCHANGED << scenario, page, uiError, isAuthenticated, uiEmails, assistantMessages,
                    draftResponse, loadVars, orgEmails, filteredEmails, searchTerm,
                    selectedTheme, categorizeSent,
                    pc, response, calls, catVars, exVars, todoVars, mailVars, routeVars >>

\* The Next button, rendered when totalPages > 1 and disabled on the last page.
NextPage ==
    /\ CanRun("organize") /\ totalPages > 1 /\ currentPage # totalPages
    /\ currentPage' = (IF totalPages < currentPage + 1 THEN totalPages ELSE currentPage + 1)
    /\ uiLog' = Append(uiLog, Ran("OrganizePage.Next", "ok"))
    /\ UNCHANGED << scenario, page, uiError, isAuthenticated, uiEmails, assistantMessages,
                    draftResponse, loadVars, orgEmails, filteredEmails, searchTerm,
                    selectedTheme, categorizeSent,
                    pc, response, calls, catVars, exVars, todoVars, mailVars, routeVars >>

\* The Ask Assistant button of the Todo page: askAssistant up to its fetch;
\* the question is appended.
TodoAskClick ==
    /\ scenario = "todo" /\ pc = "ready" /\ RunsStarted < MaxActions
    /\ ~assistantLoading
    /\ assistantLoading' = TRUE
    /\ assistantMessages' = Append(assistantMessages, UserQuestion)
    /\ inflight' = Sent("TodoPage.askAssistant")
    /\ UNCHANGED << scenario, page, uiLog, uiError, isAuthenticated, uiEmails, draftResponse,
                    loading, categorizing, isLoading, orgVars,
                    pc, response, calls, catVars, exVars, todoVars, mailVars, routeVars >>

\* TodoPage.askAssistant after its fetch: the answer is appended on an OK
\* response and an 'Error: ...' message on an error response or a rejected
\* fetch.  The finally clears assistantLoading.
TodoAskAssistant ==
    /\ scenario = "todo" /\ inflight["TodoPage.askAssistant"] > 0
    /\ \E outcome \in FetchOutcomes3 :
         /\ uiLog' = Append(uiLog, Ran("TodoPage.askAssistant", outcome))
         /\ assistantMessages' = Append(assistantMessages,
               IF outcome = "ok" THEN AssistantAnswer ELSE AssistantError)
    /\ assistantLoading' = AfterFinally(assistantLoading)
    /\ inflight' = Settled("TodoPage.askAssistant")
    /\ UNCHANGED << scenario, page, uiError, isAuthenticated, uiEmails, draftResponse,
                    loading, categorizing, isLoading, orgVars,
                    pc, response, calls, catVars, exVars, todoVars, mailVars, routeVars >>

\* Home mounts with isLoading set and checkAuthStatus under way.
InitHome ==
    /\ scenario = "ui" /\ pc = "ready" /\ page = "home"
    /\ response = NoResponse
    /\ FreshPage
    /\ inflight = [NoneInFlight EXCEPT !["Home.checkAuthStatus"] = 1]
    /\ isLoading = TRUE /\ loading = FALSE
    /\ IdleCategorize /\ IdleExtract /\ IdleTodo /\ IdleEmailsRoute /\ IdleRoutes

\* OrganizePage mounts with loadEmails under way.
InitOrganize ==
    /\ scenario = "ui" /\ pc = "ready" /\ page = "organize"
    /\ response = NoResponse
    /\ FreshPage
    /\ inflight = [NoneInFlight EXCEPT !["OrganizePage.loadEmails"] = 1]
    /\ loading = TRUE /\ isLoading = FALSE
    /\ IdleCategorize /\ IdleExtract /\ IdleTodo /\ IdleEmailsRoute /\ IdleRoutes

InitUI == InitHome \/ InitOrganize

InitPages == InitTodo \/ InitUI

NextPages ==
    \/ TodoLoadEmails
    \/ toggleEmailSelection
    \/ generateTasksFromEmails
    \/ GenerateTasksRoute
    \/ generateTasksResponse
    \/ generateTasksNetworkError
    \/ TodoAskClick
    \/ TodoAskAssistant
    \/ HomeCheckAuthStatus
    \/ HomeRefreshEmails
    \/ HomeFetchEmails
    \/ HomeLogoutClick
    \/ HomeHandleLogout
    \/ OrganizeLoadEmailsClick
    \/ OrganizeLoadEmails
    \/ OrganizeCategorizeClick
    \/ OrganizeCategorizeEmails
    \/ OrganizeAskClick
    \/ OrganizeAskAssistant
    \/ OrganizeDraftClick
    \/ OrganizeGenerateDraftResponse

SpecPages == InitPages /\ [][NextPages]_vars

\* The list of the Organize page: load, categorize, search, theme filter and
\* the page buttons.
NextOrganize ==
    \/ OrganizeLoadEmailsClick
    \/ OrganizeLoadEmails
    \/ OrganizeCategorizeClick
    \/ OrganizeCategorizeEmails
    \/ setSearchTerm
    \/ setSelectedTheme
    \/ PreviousPage
    \/ NextPage

SpecOrganize == InitOrganize /\ [][NextOrganize]_vars

(***************************************************************************)
(* The task list of the Todo page: the checkbox and the delete button.     *)
(***************************************************************************)

\* task.status, "undefined" for a task without one.
StatusOf(task) == IF "status" \in DOMAIN task THEN task.status ELSE "undefined"

\* The status the checkbox gives a task of status s.
Toggled(s) == IF s = "completed" THEN "pending" ELSE "completed"

\* { ...task, status: s }
WithStatus(task, s) ==
    [f \in DOMAIN task \cup {"status"} |-> IF f = "status" THEN s ELSE task[f]]

\* The setTasks update of toggleTaskStatus(taskId).
ToggleTasks(ts, taskId) ==
    [k \in 1..Len(ts) |->
        IF ts[k].id = taskId THEN WithStatus(ts[k], Toggled(StatusOf(ts[k]))) ELSE ts[k]]

\* The setTasks update of deleteTask(taskId).
DeleteTasks(ts, taskId) == SelectSeq(ts, LAMBDA task : task.id # taskId)

\* toggleTaskStatus: the checkbox of a listed task.
toggleTaskStatus ==
    /\ scenario = "todo" /\ pc = "ready" /\ RunsStarted < MaxActions
    /\ \E k \in 1..Len(tasks) : tasks' = ToggleTasks(tasks, tasks[k].id)
    /\ uiLog' = Append(uiLog, Ran("TodoPage.toggleTaskStatus", "ok"))
    /\ UNCHANGED << scenario, loadVars, orgVars, page, uiError, isAuthenticated, uiEmails, assistantMessages,
                    draftResponse, pc, response, calls, catVars, exVars, mailVars, routeVars,
                    todoEmails, selectedEmails, taskLoading, alerts, taskRequest, taskReply,
                    clock, requests >>

\* deleteTask: the delete button of a listed task.
deleteTask ==
    /\ scenario = "todo" /\ pc = "ready" /\ RunsStarted < MaxActions
    /\ \E k \in 1..Len(tasks) : tasks' = DeleteTasks(tasks, tasks[k].id)
    /\ uiLog' = Append(uiLog, Ran("TodoPage.deleteTask", "ok"))
    /\ UNCHANGED << scenario, loadVars, orgVars, page, uiError, isAuthenticated, uiEmails, assistantMessages,
                    draftResponse, pc, response, calls, catVars, exVars, mailVars, routeVars,
                    todoEmails, selectedEmails, taskLoading, alerts, taskRequest, taskReply,
                    clock, requests >>

NextTasks ==
    \/ TodoLoadEmails
    \/ toggleEmailSelection
    \/ generateTasksFromEmails
    \/ GenerateTasksRoute
    \/ generateTasksResponse
    \/ generateTasksNetworkError
    \/ toggleTaskStatus
    \/ deleteTask

SpecTasks == InitTodo /\ [][NextTasks]_vars

-----------------------------------------------------------------------------
(* Properties of the categorize route.                                     *)

\* The records the route emitted for a logged batch.
Out(b) == SubSeq(categorizedEmails, b.from + 1, b.to)

\* The logged batches whose reply text was not empty.
RepliedBatches == {x \in 1..Len(batchLog) : batchLog[x].reply # <<>>}

\* C1: for every batch of N emails whose reply is non-empty and parses to an
\* array of length L < N, the route emits exactly N records for the batch, in
\* input order, and the records at positions L+1..N (counted from 1) have
\* theme "other" and category "general".
C1_ShortReplyDefaultsTail ==
    \A x \in RepliedBatches :
        LET b == batchLog[x]
            p == ParsedReply(backend, b.reply)
            N == Len(b.batch)
            out == Out(b)
        IN  (p.isArray /\ Len(p.val) < N) =>
              /\ Len(out) = N
              /\ \A j \in 1..N : out[j].id = b.batch[j].id
              /\ \A j \in (Len(p.val) + 1)..N :
                    out[j].theme = "other" /\ out[j].category = "general"

\* A two-batch request was answered, and for its first batch the reply held
\* an array shorter than the batch whose first element was categorized.
C1_Witness ==
    /\ scenario = "categorize" /\ pc = "done" /\ response.status = 200
    /\ Len(batchLog) = 2
    /\ LET b == batchLog[1]
           p == ParsedReply(backend, b.reply)
       IN  /\ b.reply # <<>> /\ p.isArray
           /\ Len(p.val) = Len(b.batch) - 1
           /\ Out(b)[1].theme # "other"
           /\ Out(b)[Len(b.batch)].theme = "other"

\* The reply of a logged batch is a well-formed JSON array holding exactly one
\* {id, theme, category} object per email, in order, each theme in the enum.
WellFormedSchemaReply(b) ==
    LET p == JSONParse(b.reply) IN
    /\ p.ok /\ p.isArray /\ Len(p.val) = Len(b.batch)
    /\ \A j \in 1..Len(b.batch) :
          /\ p.val[j] # JSNull
          /\ DOMAIN p.val[j] = {"id", "theme", "category"}
          /\ p.val[j].id = b.batch[j].id
          /\ p.val[j].theme \in ThemeSet
          /\ p.val[j].category # ""

\* C3: when the reply is a well-formed JSON array holding one {id, theme,
\* category} object per email with every theme in the eight-value enum, each
\* output record carries exactly the theme and category the model gave for
\* that email.
C3_SchemaReplyKept ==
    \A x \in RepliedBatches :
        LET b == batchLog[x] IN
        WellFormedSchemaReply(b) =>
            /\ Len(Out(b)) = Len(b.batch)
            /\ \A j \in 1..Len(b.batch) :
                  /\ Out(b)[j].theme = JSONParse(b.reply).val[j].theme
                  /\ Out(b)[j].category = JSONParse(b.reply).val[j].category

\* The text of an array holding the j-th element of arr alone (the empty
\* array when arr has no j-th element).
SingletonText(arr, j) ==
    IF j <= Len(arr) THEN ArrayText(<<arr[j]>>, "dq", FALSE) ELSE <<LB, RB>>

\* C6: the i-th output record of a batch is the i-th input email with every
\* original field unchanged and only theme and category set, and they are set
\* from the i-th parsed element alone: the record equals the one the route
\* emits for that email on its own with a reply holding that element on its
\* own, whatever id the element carries and however many elements follow.
C6_ByPositionOnly ==
    \A x \in RepliedBatches :
        LET b == batchLog[x]
            p == ParsedReply(backend, b.reply)
            arr == IF p.isArray THEN p.val ELSE <<>>
            out == Out(b)
        IN  /\ Len(out) = Len(b.batch)
            /\ \A j \in 1..Len(b.batch) :
                  /\ DOMAIN out[j] = (DOMAIN b.batch[j]) \cup {"theme", "category"}
                  /\ \A f \in (DOMAIN b.batch[j]) \ {"theme", "category"} :
                        out[j][f] = b.batch[j][f]
                  /\ <<out[j]>> = MergeBatch(backend, <<b.batch[j]>>, SingletonText(arr, j))

\* A reply whose elements carry the ids of other emails (the ids reversed) and
\* one more element than the batch has emails was merged: its first element,
\* naming the last email, categorized the first email.
C6_Witness ==
    \E x \in RepliedBatches :
        LET b == batchLog[x]
            p == ParsedReply(backend, b.reply)
        IN  /\ backend = "openai" /\ p.isArray
            /\ Len(b.batch) >= 2 /\ Len(p.val) = Len(b.batch) + 1
            /\ "id" \in DOMAIN p.val[1]
            /\ p.val[1].id = b.batch[Len(b.batch)].id
            /\ "theme" \in DOMAIN p.val[1]
            /\ Out(b)[1].theme = p.val[1].theme
            /\ Out(b)[1].theme # "other"
            /\ Out(b)[1].id = b.batch[1].id

\* The text contains "meeting" in any letter case.
ContainsMeeting(str) == includes(toLowerCase(str), KW_meeting)

\* The parsed element at position j has a title or a description containing
\* "meeting".
MentionsMeeting(arr, j) ==
    /\ j <= Len(arr) /\ arr[j] # JSNull
    /\ \/ "title" \in DOMAIN arr[j] /\ ContainsMeeting(arr[j].title)
       \/ "description" \in DOMAIN arr[j] /\ ContainsMeeting(arr[j].description)

\* C7 as stated: in the (Ollama) categorize route, whenever the parsed element
\* for an email has a title or a description that contains "meeting", that
\* email is emitted with theme "work" and category "meeting".
C7_MeetingAnyField ==
    backend = "ollama" =>
    \A x \in RepliedBatches :
        LET b == batchLog[x]
            arr == ParsedReply(backend, b.reply).val
        IN  \A j \in 1..Len(b.batch) :
              MentionsMeeting(arr, j) =>
                 Out(b)[j].theme = "work" /\ Out(b)[j].category = "meeting"

\* C7 amended: whenever the parsed element for an email has a non-empty title,
\* and its title or its description contains "meeting" (in any letter case),
\* that email is emitted with theme "work" and category "meeting".
C7_MeetingWithTitle ==
    backend = "ollama" =>
    \A x \in RepliedBatches :
        LET b == batchLog[x]
            arr == ParsedReply(backend, b.reply).val
        IN  \A j \in 1..Len(b.batch) :
              (MentionsMeeting(arr, j) /\ "title" \in DOMAIN arr[j] /\ arr[j].title # <<>>) =>
                 Out(b)[j].theme = "work" /\ Out(b)[j].category = "meeting"

\* An email was emitted as work/meeting for an element whose title names a
\* meeting in capitals, and another for an element whose title does not
\* mention a meeting and whose description does.
C7_Witness ==
    /\ backend = "ollama"
    /\ \E x \in RepliedBatches :
        LET b == batchLog[x]
            arr == ParsedReply(backend, b.reply).val
        IN  \E j, m \in 1..Len(b.batch) :
              /\ j <= Len(arr) /\ m <= Len(arr)
              /\ arr[j] # JSNull /\ "title" \in DOMAIN arr[j]
              /\ ContainsMeeting(arr[j].title) /\ ~includes(arr[j].title, KW_meeting)
              /\ Out(b)[j].theme = "work" /\ Out(b)[j].category = "meeting"
              /\ arr[m] # JSNull /\ "title" \in DOMAIN arr[m] /\ arr[m].title # <<>>
              /\ ~ContainsMeeting(arr[m].title)
              /\ "description" \in DOMAIN arr[m] /\ ContainsMeeting(arr[m].description)
              /\ Out(b)[m].theme = "work" /\ Out(b)[m].category = "meeting"

-----------------------------------------------------------------------------
(* Properties of the generate-tasks route and the Todo page.               *)

IdsOf(list) == {list[k].id : k \in 1..Len(list)}

\* C4: every task returned by generate-tasks carries an emailId equal to the
\* id of one of the emails of the request, and every task in the Todo page's
\* list carries the id of one of the page's emails (those it can submit).
C4_TasksNameTheirEmail ==
    /\ (scenario = "todo" /\ response # NoResponse /\ response.status = 200) =>
          \A k \in 1..Len(response.tasks) :
              /\ response.tasks[k] # JSNull
              /\ "emailId" \in DOMAIN response.tasks[k]
              /\ response.tasks[k].emailId \in IdsOf(taskRequest.emails)
    /\ \A k \in 1..Len(tasks) :
          /\ "emailId" \in DOMAIN tasks[k]
          /\ tasks[k].emailId \in IdsOf(todoEmails)

TaskTypes == {"response", "follow-up", "team-workflow", "action"}
TaskPriorities == {"low", "medium", "high", "urgent"}

\* C5: every categorized email's theme is one of the eight themes, and every
\* task in the Todo list has its type and priority in their sets and the
\* status "pending".
C5_EnumFieldsInRange ==
    /\ \A k \in 1..Len(categorizedEmails) : categorizedEmails[k].theme \in ThemeSet
    /\ \A k \in 1..Len(tasks) :
          /\ "type" \in DOMAIN tasks[k] /\ tasks[k].type \in TaskTypes
          /\ "priority" \in DOMAIN tasks[k] /\ tasks[k].priority \in TaskPriorities
          /\ "status" \in DOMAIN tasks[k] /\ tasks[k].status = "pending"

-----------------------------------------------------------------------------
(* Properties of the keyword helpers.                                      *)

\* The keyword groups in the order of the claim.
ThemeTable ==
    << [theme |-> "work", keywords |-> {KW_work, KW_meeting, KW_project, KW_client}],
       [theme |-> "personal", keywords |-> {KW_personal, KW_family, KW_friend}],
       [theme |-> "finance", keywords |-> {KW_finance, KW_money, KW_payment, KW_bill}],
       [theme |-> "shopping", keywords |-> {KW_shopping, KW_purchase, KW_buy}],
       [theme |-> "travel", keywords |-> {KW_travel, KW_trip, KW_flight}],
       [theme |-> "health", keywords |-> {KW_health, KW_medical, KW_doctor}],
       [theme |-> "education", keywords |-> {KW_education, KW_course, KW_learning}] >>

CategoryTable ==
    << [category |-> "meeting", keyword |-> KW_meeting],
       [category |-> "project", keyword |-> KW_project],
       [category |-> "client", keyword |-> KW_client],
       [category |-> "payment", keyword |-> KW_payment],
       [category |-> "purchase", keyword |-> KW_purchase],
       [category |-> "trip", keyword |-> KW_trip],
       [category |-> "medical", keyword |-> KW_medical],
       [category |-> "course", keyword |-> KW_course] >>

\* The lower-cased text "<title> <description>" of the arguments.
ExLowerText == toLowerCase(exTitle \o <<" ">> \o exDescription)

\* The groups, and the category keywords, that occur in the text.
ThemeHits == {g \in 1..Len(ThemeTable) : \E kw \in ThemeTable[g].keywords : includes(ExLowerText, kw)}
CategoryHits == {c \in 1..Len(CategoryTable) : includes(ExLowerText, CategoryTable[c].keyword)}

\* C8: the theme is that of the first group, in the order work, personal,
\* finance, shopping, travel, health, education, one of whose keywords occurs
\* in the lower-cased text, else "other"; the category is the first of
\* meeting, project, client, payment, purchase, trip, medical, course that
\* occurs in it, else "general".
C8_FirstMatchLookup ==
    /\ pc \in {"theme", "done"} =>
          exTheme = IF ThemeHits = {} THEN "other"
                    ELSE ThemeTable[CHOOSE g \in ThemeHits : \A h \in ThemeHits : g <= h].theme
    /\ pc = "done" =>
          exCategory = IF CategoryHits = {} THEN "general"
                       ELSE CategoryTable[CHOOSE c \in CategoryHits :
                                              \A h \in CategoryHits : c <= h].category

\* Both helpers ran on a text in which a travel keyword comes before a finance
\* keyword and a category keyword of a later rank comes before one of an
\* earlier rank: the group order decided, not the order in the text.
C8_Witness ==
    /\ scenario = "keywords" /\ pc = "done"
    /\ includes(toLowerCase(exTitle), KW_trip) /\ includes(toLowerCase(exDescription), KW_payment)
    /\ exTheme = "finance" /\ exCategory = "payment"

-----------------------------------------------------------------------------
(* Properties of parseAIResponse.                                          *)

\* C9: for a JSON array reply wrapped in code fences or preceded by prose,
\* parseAIResponse returns the same records as for the bare array, and the
\* categorize and generate-tasks routes produce the same output for the
\* wrapped and the bare reply.
C9_WrappingInsensitive ==
    (scenario = "parse" /\ pc = "done"
        /\ exWrapper \in {"fenced", "prose", "bracketprose"}) =>
      LET bare == Wrap("bare", exElems)
          batch == EmailList(2)
      IN  /\ exParsed = parseAIResponse(bare)
          /\ exParsed = exElems
          /\ MergeOllama(batch, exText) = MergeOllama(batch, bare)
          /\ GenerateTasksPOST(batch, TRUE, ChatReply(exText))
               = GenerateTasksPOST(batch, TRUE, ChatReply(bare))

\* C9 amended: for a JSON array reply wrapped in code fences, or preceded by
\* prose that holds no square bracket, parseAIResponse returns the same
\* records as for the bare array, and the categorize and generate-tasks routes
\* produce the same output for the wrapped and the bare reply.
C9_WrappingWithoutBrackets ==
    (scenario = "parse" /\ pc = "done" /\ exWrapper \in {"fenced", "prose"}) =>
      LET bare == Wrap("bare", exElems)
          batch == EmailList(2)
      IN  /\ exParsed = parseAIResponse(bare)
          /\ exParsed = exElems
          /\ MergeOllama(batch, exText) = MergeOllama(batch, bare)
          /\ GenerateTasksPOST(batch, TRUE, ChatReply(exText))
               = GenerateTasksPOST(batch, TRUE, ChatReply(bare))

\* A fenced reply holding two task-shaped elements was extracted, and the
\* categorize route categorized the first email from it.
C9_Witness ==
    /\ scenario = "parse" /\ pc = "done" /\ exWrapper = "fenced"
    /\ Len(exElems) = 2 /\ exParsed = exElems
    /\ "title" \in DOMAIN exElems[1]
    /\ MergeOllama(EmailList(2), exText)[1].theme = "work"

-----------------------------------------------------------------------------
(* Properties of the emails route.                                         *)

\* The listed messages whose detail fetch was OK, in list order.
OkMessages ==
    LET F[k \in 0..Len(fetchOutcome)] ==
            IF k = 0 THEN <<>>
            ELSE IF fetchOutcome[k] = "ok" THEN Append(F[k - 1], messages[k])
            ELSE F[k - 1]
    IN  F[Len(fetchOutcome)]

\* C10: once Gmail has listed messages, the response is a success whatever the
\* detail fetches did; its emails are exactly the listed messages whose detail
\* fetch was OK, in list order, and total is their number (an empty list when
\* every detail fetch failed).
C10_FailedFetchesOmitted ==
    (scenario = "emails" /\ pc = "done" /\ Len(messages) > 0) =>
        /\ response.status = 200 /\ response.success
        /\ Len(fetchOutcome) = Len(messages)
        /\ Len(response.emails) = Len(OkMessages)
        /\ \A k \in 1..Len(OkMessages) : response.emails[k].id = OkMessages[k]
        /\ response.total = Len(response.emails)

\* A response was returned after an OK, a non-OK and a throwing detail fetch.
C10_Witness ==
    /\ scenario = "emails" /\ pc = "done" /\ Len(messages) >= 3
    /\ fetchOutcome[1] = "notok" /\ fetchOutcome[2] = "ok" /\ fetchOutcome[3] = "throws"
    /\ response.status = 200 /\ response.total = 1 /\ response.emails[1].id = messages[2]

-----------------------------------------------------------------------------
(* Properties of the auth status route.                                    *)

\* The status check found an access token and its probe ended with outcome o.
ProbeEnded(o) ==
    /\ scenario = "route" /\ route = "auth-status" /\ pc = "done"
    /\ "access_token" \in req.cookies
    /\ Len(calls) = 1 /\ calls[1].kind = "gmail" /\ calls[1].outcome = o

\* C11: whenever the status check finds an access token and its probe does not
\* succeed (a non-OK response or a thrown network error), both the
\* access_token and the refresh_token cookie are cleared and the response is
\* authenticated:false.
C11_FailedProbeClearsCookies ==
    (ProbeEnded("notok") \/ ProbeEnded("throws")) =>
        /\ cookies \cap AuthCookies = {}
        /\ response.authenticated = FALSE

\* C11 amended: when the probe returns a non-OK response, both cookies are
\* cleared (the other cookies are kept) and the response is
\* authenticated:false; when the probe call throws, the response is
\* authenticated:false and the cookie store is left as it was.
C11_RefusedProbeClearsCookies ==
    /\ ProbeEnded("notok") =>
          /\ cookies = req.cookies \ AuthCookies
          /\ response.authenticated = FALSE
    /\ ProbeEnded("throws") =>
          /\ cookies = req.cookies
          /\ response.authenticated = FALSE

\* A request holding both tokens and another cookie was refused by Gmail: the
\* tokens are gone, the other cookie is kept.
C11_Witness ==
    /\ ProbeEnded("notok")
    /\ req.cookies = AuthCookies \cup {"theme"}
    /\ cookies = {"theme"}
    /\ response.authenticated = FALSE

-----------------------------------------------------------------------------
(* Properties of the LLM routes.                                           *)

OllamaRoutes == {"draft", "todo-assistant", "organize-assistant", "generate-tasks"}
OpenAIRoutes == {"draft-openai", "organize-assistant-openai"}

\* The request carries what its route requires.
ValidRequest ==
    /\ scenario = "route"
    /\ route \in {"draft", "draft-openai"} => req.hasEmail
    /\ route \in {"organize-assistant", "organize-assistant-openai"} =>
          req.hasEmail /\ req.question # <<>>
    /\ route = "todo-assistant" => req.question # <<>>
    /\ route = "generate-tasks" => Len(req.emails) > 0

\* The chat calls among the calls made.
ChatCalls == SelectSeq(calls, LAMBDA c : c.kind = "chat")

\* C12: when the Ollama backend is unreachable, every Ollama-backed route
\* answers a valid request with an error whose message tells the user to start
\* the Ollama server, and makes no chat call.
C12_OllamaDownReported ==
    /\ (scenario = "route" /\ pc = "done" /\ route \in OllamaRoutes
          /\ ValidRequest /\ env.openaiKey /\ ~env.ollamaUp) =>
          /\ response.status >= 400
          /\ response.error = OllamaDownMessage
          /\ ChatCalls = <<>>
    /\ (scenario = "categorize" /\ pc = "done" /\ backend = "ollama" /\ ~env.ollamaUp) =>
          /\ response.status >= 400
          /\ response.error = OllamaDownMessage
          /\ ChatCalls = <<>>

\* C13: when the chat reply has an empty or absent message, the route reports
\* an error: no request in which a chat call returned an empty message ends
\* with a success response.
C13_EmptyReplyIsError ==
    (scenario \in {"route", "categorize"} /\ pc = "done"
        /\ \E k \in 1..Len(calls) : calls[k].kind = "chat" /\ calls[k].outcome = "empty") =>
        response.status >= 400

\* C15: every chat call that carries emails carries at most 10 of them, in
\* the categorize route and in generate-tasks.
C15_PromptsWithinBatchWindow ==
    \A k \in 1..Len(calls) :
        calls[k].kind = "chat" => calls[k].emails <= batchSize

\* C17: with OPENAI_API_KEY unset and Ollama available, every Ollama-backed
\* route answers a valid request whose chat calls all return with a success
\* response.
C17_OllamaRoutesNeedNoKey ==
    /\ (scenario = "route" /\ pc = "done" /\ route \in OllamaRoutes /\ ValidRequest
          /\ ~env.openaiKey /\ env.ollamaUp
          /\ \A k \in 1..Len(calls) : calls[k].outcome \notin {"throws", "empty"}) =>
          response.status = 200
    /\ (scenario = "categorize" /\ pc = "done" /\ backend = "ollama" /\ emailsIsArray
          /\ ~env.openaiKey /\ env.ollamaUp
          /\ \A k \in 1..Len(calls) : calls[k].outcome \notin {"throws", "empty"}) =>
          response.status = 200

\* C18: a categorize or generate-tasks request whose email list is empty
\* fails with an invalid-input error (HTTP 400) and makes no chat call; the
\* routes that check their backend first may report it unavailable instead.
C18_EmptyListIsInvalidInput ==
    /\ (scenario = "route" /\ pc = "done" /\ route = "generate-tasks"
          /\ Len(req.emails) = 0) =>
          response.status = 400 /\ ChatCalls = <<>>
    /\ (scenario = "categorize" /\ pc = "done" /\ emailsIsArray /\ Len(emails) = 0) =>
          /\ ChatCalls = <<>>
          /\ \/ response.status = 400
             \/ response.status = 500 /\ response.error \in
                    {OllamaDownMessage, "OpenAI API key not configured"}

AssistantRoutes == {"todo-assistant", "organize-assistant", "organize-assistant-openai"}

\* C16: the message list an assistant route sends to the model is exactly one
\* system message first, then the last min(10, n) entries of the n-entry
\* conversationHistory (none when no history is given) in their original
\* order, then the current question as the final user message; at most 12
\* messages are sent.
C16_LastTenOfHistory ==
    (scenario = "route" /\ route \in AssistantRoutes /\ ChatCalls # <<>>) =>
        LET msgs == ChatCalls[1].messages
            n == IF req.historyGiven THEN Len(req.history) ELSE 0
            m == IF n < 10 THEN n ELSE 10
        IN  /\ Len(msgs) = m + 2
            /\ Len(msgs) <= 12
            /\ msgs[1].role = "system"
            /\ \A k \in 2..Len(msgs) : msgs[k].role # "system"
            /\ \A k \in 1..m :
                  /\ msgs[1 + k].role = req.history[n - m + k].role
                  /\ msgs[1 + k].content = req.history[n - m + k].content
            /\ msgs[m + 2].role = "user"
            /\ msgs[m + 2].content.kind = "question"
            /\ msgs[m + 2].content.question = req.question

\* The todo assistant was sent a history of 12 entries and passed on the
\* entries 3 to 12 between its system message and the question.
C16_Witness ==
    /\ scenario = "route" /\ route = "todo-assistant" /\ pc = "done"
    /\ req.historyGiven /\ Len(req.history) = 12
    /\ ChatCalls # <<>>
    /\ Len(ChatCalls[1].messages) = 12
    /\ ChatCalls[1].messages[2].content = req.history[3].content
    /\ ChatCalls[1].messages[11].content = req.history[12].content
    /\ response.status = 200

\* C19: when required configuration is missing (the Google client id or the
\* redirect URI for login; OPENAI_API_KEY for the OpenAI-backed categorize,
\* assistant and draft routes), the request ends with an error response
\* carrying a message, and no redirect and no external call is made.
C19_MissingConfigurationIsReported ==
    /\ (scenario = "route" /\ route = "login" /\ pc = "done"
          /\ (~env.clientId \/ ~env.redirectUri)) =>
          /\ response.status = 500
          /\ "error" \in DOMAIN response /\ response.error # ""
          /\ "redirect" \notin DOMAIN response
          /\ calls = <<>>
    /\ (scenario = "route" /\ route \in OpenAIRoutes /\ pc = "done" /\ ~env.openaiKey) =>
          /\ response.status = 500
          /\ "error" \in DOMAIN response /\ response.error # ""
          /\ calls = <<>>
    /\ (scenario = "categorize" /\ backend = "openai" /\ pc = "done" /\ ~env.openaiKey) =>
          /\ response.status = 500
          /\ "error" \in DOMAIN response /\ response.error # ""
          /\ calls = <<>>

\* A login request arrived with the client id set and the redirect URI
\* missing, and was answered with the configuration error.
C19_Witness ==
    /\ scenario = "route" /\ route = "login" /\ pc = "done"
    /\ env.clientId /\ ~env.redirectUri
    /\ response = [status |-> 500, error |-> "Missing Google OAuth configuration"]


(***************************************************************************)
(* Failures on the pages                                                   *)
(***************************************************************************)

\* The actions the user can start on the pages.
UserActions ==
    { "Home.handleLogout", "Home.fetchEmails",
      "OrganizePage.loadEmails", "OrganizePage.categorizeEmails",
      "OrganizePage.askAssistant", "OrganizePage.generateDraftResponse",
      "TodoPage.loadEmails", "TodoPage.askAssistant" }

\* This step is a handler run that ended on an error response or a rejected
\* fetch.
FailedRun ==
    /\ Len(uiLog') = Len(uiLog) + 1
    /\ uiLog'[Len(uiLog')].action \in UserActions
    /\ uiLog'[Len(uiLog')].outcome # "ok"

\* This step is generateTasksFromEmails ending on an error response or a
\* rejected fetch.
GenerateTasksFailed ==
    /\ scenario = "todo" /\ taskRequest.sent /\ ~taskRequest'.sent
    /\ (response = NoResponse \/ response.status # 200)

\* After this step the page shows an error: a new alert, the error banner of
\* Home, or an 'Error: ...' message closing the assistant conversation.
ErrorShown ==
    \/ alerts' > alerts
    \/ uiError' # ""
    \/ /\ assistantMessages' # <<>>
       /\ assistantMessages'[Len(assistantMessages')] = AssistantError

\* C20: every failed action on a page (load emails, AI categorize, ask
\* assistant, generate draft, generate tasks, logout) leaves an error
\* indication visible: no error response and no network failure ends with the
\* page showing nothing.
C20_EveryFailureIsShown == [][(FailedRun \/ GenerateTasksFailed) => ErrorShown]_vars

(***************************************************************************)
(* Task statuses                                                           *)
(***************************************************************************)

TaskStatuses == {"pending", "in-progress", "completed"}

\* The statuses the user's actions can give a task: the one it has and the
\* ones the checkbox leads to.
UserSettable(task) ==
    { StatusOf(task), Toggled(StatusOf(task)), Toggled(Toggled(StatusOf(task))) }

\* C21: once the Todo page lists tasks, each of the three statuses pending,
\* in-progress and completed can be given to some task by the user's actions.
C21_EveryStatusCanBeSet ==
    (scenario = "todo" /\ tasks # <<>>) =>
        \A s \in TaskStatuses : \E k \in 1..Len(tasks) : s \in UserSettable(tasks[k])

(***************************************************************************)
(* The draft call of the organize assistant                                *)
(***************************************************************************)

OrganizeAssistants == {"organize-assistant", "organize-assistant-openai"}

\* The question contains "reply", "respond" or "draft", in any case.
AsksForReply(question) ==
    \E kw \in {KW_reply, KW_respond, KW_draft} : includes(toLowerCase(question), kw)

\* The organize assistant has ended and its answer call returned.
AnswerReturned ==
    /\ scenario = "route" /\ route \in OrganizeAssistants /\ pc = "done"
    /\ Len(ChatCalls) >= 1
    /\ ChatCalls[1].outcome # "throws"

\* C22: once the answer call has returned, the organize assistant makes the
\* draft call exactly when the question contains "reply", "respond" or "draft"
\* (in any case); the draft call comes second, after the answer call, and no
\* call is made after an answer call that threw; a question with none of the
\* three words gets draftResponse = ''.
C22_DraftCallIffAsked ==
    /\ AnswerReturned =>
         /\ Len(ChatCalls) = (IF AsksForReply(req.question) THEN 2 ELSE 1)
         /\ Len(ChatCalls) = 2 => ChatCalls[2].messages = PromptMessages("assistant-draft")
         /\ ~AsksForReply(req.question) =>
               response.status = 200 /\ response.draftResponse = <<>>
    /\ (scenario = "route" /\ route \in OrganizeAssistants /\ pc = "done"
          /\ Len(ChatCalls) >= 1 /\ ChatCalls[1].outcome = "throws")
         => Len(ChatCalls) = 1

\* The question 'REPLY' got its answer and then its draft.
C22_Witness ==
    /\ AnswerReturned
    /\ req.question = Q_Reply
    /\ Len(ChatCalls) = 2
    /\ ChatCalls[2].outcome = "text"

(***************************************************************************)
(* The frame of generateTasksFromEmails                                    *)
(***************************************************************************)

\* This step is the end of a generate-tasks request.
GenerateTasksSettles == scenario = "todo" /\ taskRequest.sent /\ ~taskRequest'.sent

\* This step is a click on Generate Tasks with no email selected.
EmptySelectionClick ==
    scenario = "todo" /\ requests' = requests + 1 /\ selectedEmails = <<>>

\* C24: a success response appends the new tasks after the existing ones,
\* which stay as they were and in order, and clears the selection; an error
\* response or a network failure leaves tasks and selection unchanged; with
\* an empty selection no request is sent and tasks, selection and taskLoading
\* stay as they were.
C24_GenerateTasksFrame ==
    [][ /\ (GenerateTasksSettles /\ response # NoResponse /\ response.status = 200) =>
             /\ Len(tasks') = Len(tasks) + Len(response.tasks)
             /\ SubSeq(tasks', 1, Len(tasks)) = tasks
             /\ \A k \in 1..Len(response.tasks) :
                    \A f \in DOMAIN SpreadTask(response.tasks[k], 0, 0) \ {"id", "createdAt"} :
                        tasks'[Len(tasks) + k][f] =
                            SpreadTask(response.tasks[k], 0, 0)[f]
             /\ selectedEmails' = <<>>
        /\ (GenerateTasksSettles /\ (response = NoResponse \/ response.status # 200)) =>
             /\ tasks' = tasks
             /\ selectedEmails' = selectedEmails
        /\ EmptySelectionClick =>
             /\ ~taskRequest'.sent /\ taskRequest' = taskRequest
             /\ calls' = calls
             /\ tasks' = tasks /\ selectedEmails' = selectedEmails
             /\ taskLoading' = taskLoading
      ]_vars

\* Tasks of a second successful request stand after the tasks of the first,
\* and the selection is empty.
C24_Witness ==
    /\ scenario = "todo" /\ requests = 2 /\ ~taskRequest.sent
    /\ selectedEmails = <<>>
    /\ \E k \in 2..Len(tasks) : tasks[k].id[3] = 0 /\ tasks[1].id[3] = 0

(***************************************************************************)
(* One record per email                                                    *)
(***************************************************************************)

\* The ids of a list of emails, in order.
Ids(list) == [k \in 1..Len(list) |-> list[k].id]

\* C26: whatever the model replies, a success response of the categorize
\* route holds exactly one record per email of the request, in request order:
\* the same sequence of ids.
C26_OneRecordPerEmail ==
    (scenario = "categorize" /\ pc = "done" /\ response.status = 200) =>
        Ids(response.body) = Ids(emails)

(***************************************************************************)
(* Loading flags                                                           *)
(***************************************************************************)

\* The fetches whose handlers set and clear each flag are in flight.
LoadingRequest == inflight["OrganizePage.loadEmails"] > 0
CategorizingRequest == inflight["OrganizePage.categorizeEmails"] > 0
AssistantRequest ==
    inflight["OrganizePage.askAssistant"] + inflight["OrganizePage.generateDraftResponse"]
    + inflight["TodoPage.askAssistant"] > 0
IsLoadingRequest == inflight["Home.checkAuthStatus"] + inflight["Home.fetchEmails"] > 0

\* C23: a loading flag (loading, categorizing, assistantLoading, taskLoading,
\* isLoading) is set only while a request of an action that sets it is still
\* in flight: whether the request succeeds, returns an error response or
\* throws, the flag is clear once it has settled, so no action leaves its
\* buttons disabled for good.
C23_FlagsClearWhenSettled ==
    /\ loading => LoadingRequest
    /\ categorizing => CategorizingRequest
    /\ assistantLoading => AssistantRequest
    /\ isLoading => IsLoadingRequest
    /\ taskLoading => taskRequest.sent

\* Requests of each page have ended in an error response and in a rejected
\* fetch, and nothing is in flight.
C23_Witness ==
    /\ TotalInFlight = 0 /\ ~taskRequest.sent
    /\ \E k \in 1..Len(uiLog) : uiLog[k].outcome = "error-response"
    /\ \E k \in 1..Len(uiLog) : uiLog[k].outcome = "network-error"
    /\ \E k \in 1..Len(uiLog) : uiLog[k].action = "OrganizePage.categorizeEmails"

\* Every request settles: the steps that end a request are weakly fair.
SettleFairness ==
    /\ WF_vars(HomeCheckAuthStatus) /\ WF_vars(HomeFetchEmails)
    /\ WF_vars(OrganizeLoadEmails) /\ WF_vars(OrganizeCategorizeEmails)
    /\ WF_vars(OrganizeAskAssistant) /\ WF_vars(OrganizeGenerateDraftResponse)
    /\ WF_vars(TodoAskAssistant)
    /\ WF_vars(GenerateTasksRoute \/ generateTasksResponse \/ generateTasksNetworkError)

SpecPagesLive == SpecPages /\ SettleFairness

\* Under SpecPagesLive every loading flag that is set is cleared later.
FlagsEventuallyClear ==
    /\ loading ~> ~loading
    /\ categorizing ~> ~categorizing
    /\ assistantLoading ~> ~assistantLoading
    /\ isLoading ~> ~isLoading
    /\ taskLoading ~> ~taskLoading

(***************************************************************************)
(* Pagination of the Organize page                                         *)
(***************************************************************************)

\* max(1, totalPages)
LastPage == IF totalPages > 1 THEN totalPages ELSE 1

\* C25: after any sequence of load, categorize, search, theme-filter,
\* Previous and Next actions, currentPage lies between 1 and
\* max(1, totalPages), and every step that sets the email list, or changes the
\* search term or the selected theme, puts currentPage back to 1.
C25_CurrentPageInRange ==
    /\ [](scenario = "ui" /\ page = "organize" =>
             currentPage >= 1 /\ currentPage <= LastPage)
    /\ [][ (\/ orgEmails' # orgEmails
            \/ searchTerm' # searchTerm
            \/ selectedTheme' # selectedTheme) => currentPage' = 1 ]_vars

\* The user went to page 2 and then changed the filter: back on page 1 of a
\* list that still has several pages.
C25_Witness ==
    /\ scenario = "ui" /\ page = "organize"
    /\ \E k \in 1..Len(uiLog) : uiLog[k].action = "OrganizePage.Next"
    /\ uiLog[Len(uiLog)].action \in {"OrganizePage.setSearchTerm", "OrganizePage.setSelectedTheme"}
    /\ currentPage = 1 /\ totalPages > 1

(***************************************************************************)
(* The list after AI Categorize                                            *)
(***************************************************************************)

\* This step applies an OK response of the categorize route to the page.
CategorizeApplied ==
    /\ scenario = "ui" /\ page = "organize"
    /\ Len(uiLog') = Len(uiLog) + 1
    /\ uiLog'[Len(uiLog')] = Ran("OrganizePage.categorizeEmails", "ok")

\* C27: after a successful AI Categorize the page lists the same emails, same
\* ids in the same order, as when the action was started, however many
\* emails were loaded.
C27_CategorizeKeepsTheList ==
    [][CategorizeApplied => Ids(orgEmails') = Ids(categorizeSent.listed)]_vars

(***************************************************************************)
(* Interleavings on the Home page                                          *)
(***************************************************************************)

\* C28: on the Home page, whatever the interleaving of the auth check, the
\* email fetches and logout, isLoading is set whenever an email fetch is in
\* flight, and the emails list is empty whenever isAuthenticated is false: an
\* email fetch that completes after a logout does not fill the list again.
C28_HomeInterleavings ==
    (scenario = "ui" /\ page = "home") =>
        /\ inflight["Home.fetchEmails"] > 0 => isLoading
        /\ ~isAuthenticated => uiEmails = 0

(***************************************************************************)
(* The error banner of the Home page                                       *)
(***************************************************************************)

\* This step is fetchEmails completing with success.
FetchSucceeded ==
    /\ scenario = "ui" /\ page = "home"
    /\ Len(uiLog') = Len(uiLog) + 1
    /\ uiLog'[Len(uiLog')] = Ran("Home.fetchEmails", "ok")

\* C29: on the Home page a successful email fetch clears an error shown
\* before: after fetchEmails completes with success error is null, so the
\* banner shows only when the most recent fetch failed.
C29_SuccessClearsError == [][FetchSucceeded => uiError' = ""]_vars

====
